---- MODULE Spec2Model ----
(***************************************************************************)
(* Model of the product-management analytics engine: EpicMetricsService    *)
(* (progress, health, initiative aggregation).  The service is stateless:  *)
(* every operation is a pure function of its arguments, so the state of    *)
(* the model is the call being served: which operation was called, with    *)
(* which arguments, and what it returned.                                  *)
(***************************************************************************)
EXTENDS Integers, Sequences, FiniteSets, TLC

VARIABLES call, input, output, frame

vars == <<call, input, output, frame>>

(***************************************************************************)
(* Bounds of the model.                                                    *)
(***************************************************************************)
MaxChildren == 3
MaxBlockers == 2
MaxTime == 4
MaxInitiatives == 2
MaxEpics == 2

(***************************************************************************)
(* JavaScript values.                                                      *)
(***************************************************************************)
\* undefined / null / a missing field of a record
UNDEFINED == "<undefined>"

\* x || d on strings: undefined, null and '' are falsy
OrElse(x, d) == IF x = UNDEFINED \/ x = "" THEN d ELSE x

\* A Date object (or the number an arithmetic on Dates gives): NaN or an integer
NaNValue == [nan |-> TRUE, ms |-> 0]
Num(n) == [nan |-> FALSE, ms |-> n]

\* new Date(v): a missing or unparseable value gives an Invalid Date (NaN)
NewDate(v) == IF v.kind = "date" THEN Num(v.ms) ELSE NaNValue

\* a - b on Dates / numbers
Minus(a, b) == IF a.nan \/ b.nan THEN NaNValue ELSE Num(a.ms - b.ms)

\* a > b on Dates / numbers: any comparison with NaN is false
Greater(a, b) == ~a.nan /\ ~b.nan /\ a.ms > b.ms

\* Math.round(n / d) for d > 0: the nearest integer, halves rounded up
MathRound(n, d) == (2 * n + d) \div (2 * d)

\* An optional array or object argument: undefined / null, or a value
Undefined == [defined |-> FALSE]
Some(v) == [defined |-> TRUE, value |-> v]

\* String.prototype.toLowerCase, a string being a sequence of characters
LowerChar(c) ==
  CASE c = "A" -> "a" [] c = "B" -> "b" [] c = "C" -> "c" [] c = "D" -> "d"
    [] c = "E" -> "e" [] c = "F" -> "f" [] c = "G" -> "g" [] c = "H" -> "h"
    [] c = "I" -> "i" [] c = "J" -> "j" [] c = "K" -> "k" [] c = "L" -> "l"
    [] c = "M" -> "m" [] c = "N" -> "n" [] c = "O" -> "o" [] c = "P" -> "p"
    [] c = "Q" -> "q" [] c = "R" -> "r" [] c = "S" -> "s" [] c = "T" -> "t"
    [] c = "U" -> "u" [] c = "V" -> "v" [] c = "W" -> "w" [] c = "X" -> "x"
    [] c = "Y" -> "y" [] c = "Z" -> "z" [] OTHER -> c

toLowerCase(s) == [i \in 1..Len(s) |-> LowerChar(s[i])]

\* Array.prototype.join(', ') on an array of strings
RECURSIVE Join(_)
Join(s) ==
  IF s = <<>> THEN ""
  ELSE IF Len(s) = 1 THEN s[1]
       ELSE s[1] \o ", " \o Join(Tail(s))

(***************************************************************************)
(* calculateEpicProgress(children)                                         *)
(***************************************************************************)
\* child.fields?.customfield_10061 || 0
PointsOf(child) == IF child.points.defined THEN child.points.value ELSE 0

\* the for loop over the children, acc holding the five counters
RECURSIVE ProgressLoop(_, _)
ProgressLoop(children, acc) ==
  IF children = <<>> THEN acc
  ELSE LET child == Head(children)
           statusCategory == OrElse(child.statusCategory, "new")
           points == PointsOf(child)
           counted == [acc EXCEPT !.totalPoints = @ + points]
       IN ProgressLoop(Tail(children),
            IF statusCategory = "done"
              THEN [counted EXCEPT !.done = @ + 1, !.completedPoints = @ + points]
            ELSE IF statusCategory = "indeterminate"
              THEN [counted EXCEPT !.inProgress = @ + 1]
            ELSE [counted EXCEPT !.todo = @ + 1])

\* no children reported as complete
ZeroProgress_Complete ==
  [total |-> 0, done |-> 0, inProgress |-> 0, todo |-> 0,
   totalPoints |-> 0, completedPoints |-> 0, progress |-> 100]

\* the value returned for an absent or empty child list
ZeroProgress ==
  [total |-> 0, done |-> 0, inProgress |-> 0, todo |-> 0,
   totalPoints |-> 0, completedPoints |-> 0, progress |-> 0]

calculateEpicProgress(children) ==
  IF ~children.defined \/ Len(children.value) = 0 THEN ZeroProgress
  ELSE LET acc == ProgressLoop(children.value,
                    [done |-> 0, inProgress |-> 0, todo |-> 0,
                     totalPoints |-> 0, completedPoints |-> 0])
           total == Len(children.value)
       IN [total |-> total,
           done |-> acc.done,
           inProgress |-> acc.inProgress,
           todo |-> acc.todo,
           totalPoints |-> acc.totalPoints,
           completedPoints |-> acc.completedPoints,
           progress |-> IF total > 0 THEN MathRound(acc.done * 100, total) ELSE 0]

(***************************************************************************)
(* calculateEpicHealth(epic, children, dependencies)                       *)
(***************************************************************************)
ClosedStatuses ==
  {<<"d", "o", "n", "e">>,
   <<"c", "l", "o", "s", "e", "d">>,
   <<"r", "e", "s", "o", "l", "v", "e", "d">>}

\* a blocker without a status taken for a closed one
IsUnresolved_MissingIsDone(b) ==
  LET status == toLowerCase(IF b.status.defined THEN b.status.value
                            ELSE <<"d", "o", "n", "e">>)
  IN status \notin ClosedStatuses

\* the filter callback: (b.status || '').toLowerCase() is not a closed status
IsUnresolved(b) ==
  LET status == toLowerCase(IF b.status.defined THEN b.status.value ELSE <<>>)
  IN status \notin ClosedStatuses

\* blockedBy.filter(b => ...)
RECURSIVE FilterUnresolved(_)
FilterUnresolved(blockedBy) ==
  IF blockedBy = <<>> THEN <<>>
  ELSE IF IsUnresolved(Head(blockedBy))
         THEN <<Head(blockedBy)>> \o FilterUnresolved(Tail(blockedBy))
       ELSE FilterUnresolved(Tail(blockedBy))

\* dependencies?.blockedBy || []
BlockedByOf(dependencies) ==
  IF dependencies.defined /\ dependencies.value.blockedBy.defined
    THEN dependencies.value.blockedBy.value
  ELSE <<>>

KeysOf(blockers) == [i \in 1..Len(blockers) |-> blockers[i].key]

\* `${childProgress.progress}% done`
PercentDone(progress) == <<ToString(progress), "% done">>

\* the branch taken when the epic has no due date
NoDueDateHealth_NoLowProgress(childProgress) ==
  IF childProgress.total = 0
    THEN [health |-> "no-data", reason |-> <<"No child issues">>]
  ELSE IF childProgress.progress >= 30
    THEN [health |-> "on-track", reason |-> PercentDone(childProgress.progress)]
  ELSE [health |-> "at-risk",
        reason |-> <<ToString(childProgress.progress), "% done (no due date)">>]

NoDueDateHealth(childProgress) ==
  IF childProgress.total = 0
    THEN [health |-> "no-data", reason |-> <<"No child issues">>]
  ELSE IF childProgress.progress >= 70
    THEN [health |-> "on-track", reason |-> PercentDone(childProgress.progress)]
  ELSE IF childProgress.progress >= 30
    THEN [health |-> "on-track", reason |-> PercentDone(childProgress.progress)]
  ELSE [health |-> "on-track",
        reason |-> <<ToString(childProgress.progress), "% done (no due date)">>]

\* totalTime > 0 ? Math.round((elapsed / totalTime) * 100) : 100
TimeProgress(start, end, now) ==
  LET totalTime == Minus(end, start)
      elapsed == Minus(now, start)
  IN IF Greater(totalTime, Num(0))
       THEN (IF elapsed.nan THEN NaNValue
             ELSE Num(MathRound(elapsed.ms * 100, totalTime.ms)))
     ELSE Num(100)

\* now > end, and inside it childProgress.progress < 100
Overdue_Inverted(now, end, progress) == Greater(end, now) /\ progress < 100

Overdue(now, end, progress) == Greater(now, end) /\ progress < 100

\* timeProgress > 0 && childProgress.progress < timeProgress - 15
BehindSchedule_NoMargin(progress, timeProgress) ==
  /\ Greater(timeProgress, Num(0))
  /\ Greater(timeProgress, Num(progress))

BehindSchedule(progress, timeProgress) ==
  /\ Greater(timeProgress, Num(0))
  /\ Greater(Minus(timeProgress, Num(15)), Num(progress))

\* the part of calculateEpicHealth after the dependency check
TimeHealth(epic, children, now) ==
  LET dueDate == epic.duedate
      created == epic.created
      childProgress == calculateEpicProgress(children)
  IN IF dueDate.kind = "absent" THEN NoDueDateHealth(childProgress)
     ELSE LET start == NewDate(created)
              end == NewDate(dueDate)
              timeProgress == TimeProgress(start, end, Num(now))
          IN IF Overdue(Num(now), end, childProgress.progress)
               THEN [health |-> "at-risk",
                     reason |-> <<"Overdue (", ToString(childProgress.progress), "% done)">>]
             ELSE IF BehindSchedule(childProgress.progress, timeProgress)
               THEN [health |-> "at-risk",
                     reason |-> <<ToString(childProgress.progress), "% done, ",
                                  ToString(timeProgress.ms), "% time elapsed">>]
             ELSE [health |-> "on-track", reason |-> PercentDone(childProgress.progress)]

\* the dependency check made before the status check
calculateEpicHealth_BlockedFirst(epic, children, dependencies, now) ==
  LET statusCategory == epic.statusCategory
      unresolvedBlockers == FilterUnresolved(BlockedByOf(dependencies))
  IN IF Len(unresolvedBlockers) > 0
       THEN [health |-> "blocked",
             reason |-> <<"Blocked by ", Join(KeysOf(unresolvedBlockers))>>]
     ELSE IF statusCategory = "done"
       THEN [health |-> "done", reason |-> <<"Completed">>]
     ELSE TimeHealth(epic, children, now)

calculateEpicHealth(epic, children, dependencies, now) ==
  LET statusCategory == epic.statusCategory
      unresolvedBlockers == FilterUnresolved(BlockedByOf(dependencies))
  IN IF statusCategory = "done"
       THEN [health |-> "done", reason |-> <<"Completed">>]
     ELSE IF Len(unresolvedBlockers) > 0
       THEN [health |-> "blocked",
             reason |-> <<"Blocked by ", Join(KeysOf(unresolvedBlockers))>>]
     ELSE TimeHealth(epic, children, now)

(***************************************************************************)
(* aggregateByInitiative(initiatives, epics)                               *)
(* The Map is a sequence of entries in insertion order.                    *)
(***************************************************************************)
\* the position of key in the map, 0 when the map has no such key
IndexOfKey(map, key) ==
  IF \E i \in 1..Len(map) : map[i].key = key
    THEN CHOOSE i \in 1..Len(map) : map[i].key = key
  ELSE 0

\* Map.prototype.set: a new key is appended, a known key keeps its position
MapSet(map, entry) ==
  LET i == IndexOfKey(map, entry.key)
  IN IF i = 0 THEN Append(map, entry) ELSE [map EXCEPT ![i] = entry]

\* the entry an initiative is given when the map is initialised
InitiativeEntry(init) ==
  [key |-> init.key,
   statusCategory |-> OrElse(init.statusCategory, "new"),
   epics |-> <<>>, totalEpics |-> 0, completedEpics |-> 0, progress |-> 0,
   totalStoryPoints |-> 0, completedStoryPoints |-> 0, health |-> UNDEFINED]

UnlinkedEntry ==
  [key |-> "_unlinked",
   statusCategory |-> "new",
   epics |-> <<>>, totalEpics |-> 0, completedEpics |-> 0, progress |-> 0,
   totalStoryPoints |-> 0, completedStoryPoints |-> 0, health |-> UNDEFINED]

\* the loop that initialises the map with the known initiatives
RECURSIVE SeedInitiatives(_, _)
SeedInitiatives(initiatives, map) ==
  IF initiatives = <<>> THEN map
  ELSE SeedInitiatives(Tail(initiatives), MapSet(map, InitiativeEntry(Head(initiatives))))

\* what is pushed on initiative.epics
EpicSummary(epic) ==
  [key |-> epic.key, progress |-> epic.progress, health |-> epic.health,
   storyPoints |-> epic.children.totalPoints,
   completedPoints |-> epic.children.completedPoints]

\* the body of the loop over the epics, the target entry at position i
AddEpicAt(map, i, epic) ==
  [map EXCEPT ![i] =
     [@ EXCEPT !.epics = Append(@, EpicSummary(epic)),
               !.totalEpics = @ + 1,
               !.completedEpics = IF epic.statusCategory = "done" THEN @ + 1 ELSE @,
               !.totalStoryPoints = @ + epic.children.totalPoints,
               !.completedStoryPoints = @ + epic.children.completedPoints]]

\* an epic whose parent is not a known initiative left out
AssignEpic_DropUnknown(map, epic) ==
  LET parentKey == OrElse(epic.parentKey, "_unlinked")
      i == IndexOfKey(map, parentKey)
  IN IF i # 0 THEN AddEpicAt(map, i, epic) ELSE map

\* initiativeMap.get(parentKey) || initiativeMap.get('_unlinked'), then the update
AssignEpic(map, epic) ==
  LET parentKey == OrElse(epic.parentKey, "_unlinked")
      i == IndexOfKey(map, parentKey)
  IN AddEpicAt(map, IF i # 0 THEN i ELSE IndexOfKey(map, "_unlinked"), epic)

RECURSIVE AssignEpics(_, _)
AssignEpics(epics, map) ==
  IF epics = <<>> THEN map
  ELSE AssignEpics(Tail(epics), AssignEpic(map, Head(epics)))

\* init.epics.filter(e => e.health === h).length
CountHealth(epics, h) == Cardinality({i \in 1..Len(epics) : epics[i].health = h})

\* at-risk epics looked at before blocked ones
InitiativeHealth_AtRiskFirst(init) ==
  IF init.totalEpics = 0 THEN "no-data"
  ELSE IF init.statusCategory = "done" \/ init.completedEpics = init.totalEpics THEN "done"
  ELSE IF CountHealth(init.epics, "at-risk") > 0 THEN "at-risk"
  ELSE IF CountHealth(init.epics, "blocked") > 0 THEN "blocked"
  ELSE "on-track"

\* the health derived from the epics of an initiative
InitiativeHealth(init) ==
  IF init.totalEpics = 0 THEN "no-data"
  ELSE IF init.statusCategory = "done" \/ init.completedEpics = init.totalEpics THEN "done"
  ELSE IF CountHealth(init.epics, "blocked") > 0 THEN "blocked"
  ELSE IF CountHealth(init.epics, "at-risk") > 0 THEN "at-risk"
  ELSE "on-track"

\* the loop that sets progress and health of every entry
Summarise(map) ==
  [i \in 1..Len(map) |->
     [map[i] EXCEPT
        !.progress = IF map[i].totalEpics > 0
                       THEN MathRound(map[i].completedEpics * 100, map[i].totalEpics)
                     ELSE 0,
        !.health = InitiativeHealth(map[i])]]

\* every bucket without epics dropped
KeepEntry_DropEmpty(i) == Len(i.epics) > 0

\* the callback of the final filter
KeepEntry(i) == i.key # "_unlinked" \/ Len(i.epics) > 0

RECURSIVE FilterEntries(_)
FilterEntries(result) ==
  IF result = <<>> THEN <<>>
  ELSE IF KeepEntry(Head(result))
         THEN <<Head(result)>> \o FilterEntries(Tail(result))
       ELSE FilterEntries(Tail(result))

aggregateByInitiative(initiatives, epics) ==
  LET seeded == MapSet(SeedInitiatives(initiatives, <<>>), UnlinkedEntry)
      assigned == AssignEpics(epics, seeded)
  IN FilterEntries(Summarise(assigned))

(***************************************************************************)
(* Inputs                                                                  *)
(***************************************************************************)
SeqsUpTo(S, n) == UNION {[1..k -> S] : k \in 0..n}

ChildStatusKeys == {UNDEFINED, "new", "indeterminate", "done"}
ChildPoints == {Undefined, Some(0), Some(2)}

ChildIssues == [statusCategory : ChildStatusKeys, points : ChildPoints]

\* the children argument: undefined, or an array of at most MaxChildren issues
ChildLists == {Undefined} \cup {Some(s) : s \in SeqsUpTo(ChildIssues, MaxChildren)}


\* the children of the epic whose health is asked for
HealthChildIssues == [statusCategory : {UNDEFINED, "done"}, points : {Undefined}]
HealthChildLists ==
  {Undefined} \cup {Some(s) : s \in SeqsUpTo(HealthChildIssues, MaxChildren)}

\* a date field of an issue: missing, an unparseable string, or a parseable date
AbsentDate == [kind |-> "absent", ms |-> 0]
InvalidDate == [kind |-> "invalid", ms |-> 0]
Dates == [kind : {"date"}, ms : 0..MaxTime]
Times == 0..MaxTime

EpicStatusKeys == {"indeterminate", "done"}
Epics ==
  [statusCategory : EpicStatusKeys,
   duedate : {AbsentDate, InvalidDate} \cup Dates,
   created : {AbsentDate} \cup Dates]

\* the issues an epic can be linked to, with the link's status name
Blockers ==
  {[key |-> "E-1", status |-> Some(<<"D", "o", "n", "e">>)],
   [key |-> "E-2", status |-> Some(<<"C", "L", "O", "S", "E", "D">>)],
   [key |-> "E-3", status |-> Some(<<"r", "e", "s", "o", "l", "v", "e", "d">>)],
   [key |-> "E-4", status |-> Some(<<"O", "p", "e", "n">>)],
   [key |-> "E-5", status |-> Undefined]}

\* the dependencies argument: at most MaxBlockers links, to distinct issues
BlockerLists ==
  {s \in SeqsUpTo(Blockers, MaxBlockers) :
     \A i, j \in 1..Len(s) : i # j => s[i].key # s[j].key}

Dependencies ==
  {Undefined, Some([blockedBy |-> Undefined])}
    \cup {Some([blockedBy |-> Some(s)]) : s \in BlockerLists}

\* the initiatives: issues I-1 .. I-MaxInitiatives, any of them supplied,
\* each once and in the order of their numbers
Initiative(n, statusCategory) ==
  [key |-> "I-" \o ToString(n), statusCategory |-> statusCategory]
InitiativeLists ==
  {[i \in 1..Len(ns) |-> Initiative(ns[i], sc[ns[i]])] :
     ns \in {t \in SeqsUpTo(1..MaxInitiatives, MaxInitiatives) :
               \A i \in 1..(Len(t) - 1) : t[i] < t[i + 1]},
     sc \in [1..MaxInitiatives -> {UNDEFINED, "done"}]}

\* the parent of an epic: none, or one of the issues I-1 .. I-MaxInitiatives,
\* which is an unknown parent when that initiative is not supplied
ParentKeys == {UNDEFINED} \cup {"I-" \o ToString(n) : n \in 1..MaxInitiatives}

\* status category, health, progress and points that buildEpicData can attach
\* to one epic: an epic is done exactly when its health is done
Evaluations ==
  {[statusCategory |-> "done", health |-> "done", progress |-> 100, totalPoints |-> 5, completedPoints |-> 5],
   [statusCategory |-> "indeterminate", health |-> "blocked", progress |-> 50, totalPoints |-> 5, completedPoints |-> 2],
   [statusCategory |-> "indeterminate", health |-> "at-risk", progress |-> 33, totalPoints |-> 3, completedPoints |-> 0],
   [statusCategory |-> "indeterminate", health |-> "on-track", progress |-> 67, totalPoints |-> 0, completedPoints |-> 0],
   [statusCategory |-> "new", health |-> "no-data", progress |-> 0, totalPoints |-> 0, completedPoints |-> 0]}

\* the object buildEpicData returns for the i-th epic
EvaluatedEpic(i, parentKey, e) ==
  [key |-> "E-" \o ToString(i),
   parentKey |-> parentKey,
   statusCategory |-> e.statusCategory,
   health |-> e.health,
   progress |-> e.progress,
   children |-> [totalPoints |-> e.totalPoints, completedPoints |-> e.completedPoints]]

\* the lists of k evaluated epics
EvaluatedEpicLists(k) ==
  {[i \in 1..k |-> EvaluatedEpic(i, f[i][1], f[i][2])] :
     f \in [1..k -> ParentKeys \X Evaluations]}

(***************************************************************************)
(* Operations                                                              *)
(***************************************************************************)
\* the local variables of a call that runs in steps (monteCarloForecast);
\* pc is the statement it is at
NoFrame ==
  [pc |-> "idle", sim |-> 0, itemsLeft |-> 0, periods |-> 0, throughput |-> 0,
   completionDays |-> <<>>]

Init ==
  /\ call = "none"
  /\ input = <<>>
  /\ output = <<>>
  /\ frame = NoFrame

CalculateEpicProgress ==
  /\ call = "none"
  /\ UNCHANGED frame
  /\ \E children \in ChildLists :
       /\ call' = "calculateEpicProgress"
       /\ input' = [children |-> children]
       /\ output' = calculateEpicProgress(children)

CalculateEpicHealth ==
  /\ call = "none"
  /\ UNCHANGED frame
  /\ \E epic \in Epics, children \in HealthChildLists,
        dependencies \in Dependencies, now \in Times :
       /\ call' = "calculateEpicHealth"
       /\ input' = [epic |-> epic, children |-> children,
                    dependencies |-> dependencies, now |-> now]
       /\ output' = calculateEpicHealth(epic, children, dependencies, now)

NextHealth == CalculateEpicProgress \/ CalculateEpicHealth

SpecHealth == Init /\ [][NextHealth]_vars

AggregateByInitiative ==
  /\ call = "none"
  /\ UNCHANGED frame
  /\ \E initiatives \in InitiativeLists, k \in 0..MaxEpics :
     \E epics \in EvaluatedEpicLists(k) :
       /\ call' = "aggregateByInitiative"
       /\ input' = [initiatives |-> initiatives, epics |-> epics]
       /\ output' = aggregateByInitiative(initiatives, epics)

NextAggregate == AggregateByInitiative

SpecAggregate == Init /\ [][NextAggregate]_vars

(***************************************************************************)
(* Properties of the Progress/Health Evaluator.  The predicates below      *)
(* describe the arguments of the call; they are stated on the inputs and   *)
(* do not use the operators that compute the result.                       *)
(***************************************************************************)
HealthCalled == call = "calculateEpicHealth"
ProgressCalled == call = "calculateEpicProgress"

EpicIsDone == input.epic.statusCategory = "done"

\* the blockedBy entries given to the call, as a set of list positions
GivenBlockedBy ==
  IF input.dependencies.defined /\ input.dependencies.value.blockedBy.defined
    THEN input.dependencies.value.blockedBy.value
  ELSE <<>>

\* of the issues in Blockers, E-4 (Open) and E-5 (no status) are unresolved
HasUnresolvedBlocker ==
  \E i \in 1..Len(GivenBlockedBy) : GivenBlockedBy[i].key \in {"E-4", "E-5"}

GivenChildren == IF input.children.defined THEN input.children.value ELSE <<>>
HasNoChildren == Len(GivenChildren) = 0
DoneChildren ==
  Cardinality({i \in 1..Len(GivenChildren) : GivenChildren[i].statusCategory = "done"})

\* the integer nearest to n / d (d > 0), a half rounded up
NearestInteger(n, d) ==
  CHOOSE r \in {n \div d, (n \div d) + 1} :
    (2 * r - 1) * d <= 2 * n /\ 2 * n < (2 * r + 1) * d

\* round(done / total * 100) of the given children
GivenProgress == NearestInteger(100 * DoneChildren, Len(GivenChildren))

DueDateIsSet == input.epic.duedate.kind # "absent"
DueIsParseable == input.epic.duedate.kind = "date"
CreatedIsParseable == input.epic.created.kind = "date"
DueIsPast == DueIsParseable /\ input.epic.duedate.ms < input.now

\* C1: an epic whose own status category is done gets verdict done, whatever
\* its blockers, children, creation date and due date are.
C1_DoneWins == HealthCalled /\ EpicIsDone => output.health = "done"

C1_Witness ==
  /\ HealthCalled /\ EpicIsDone /\ HasUnresolvedBlocker
  /\ DueIsPast /\ ~HasNoChildren /\ DoneChildren = 0
  /\ output.health = "done"

\* C2 (as stated): every epic with at least one unresolved blocker gets
\* verdict blocked.
C2_BlockedAlways == HealthCalled /\ HasUnresolvedBlocker => output.health = "blocked"

\* C2 (amended): every epic that is not done and has at least one unresolved
\* blocker gets verdict blocked, whatever its dates and child progress are.
C2_BlockedUnlessDone ==
  HealthCalled /\ ~EpicIsDone /\ HasUnresolvedBlocker => output.health = "blocked"

C2_Witness ==
  /\ HealthCalled /\ ~EpicIsDone
  /\ Len(GivenBlockedBy) = 2
  /\ GivenBlockedBy[1].key = "E-2" /\ GivenBlockedBy[2].key = "E-5"
  /\ DueIsPast /\ ~HasNoChildren /\ DoneChildren = 0
  /\ output.health = "blocked"

\* C3: an epic that is not done, has no unresolved blocker and has no child
\* issues gets verdict no-data, with or without a due date.
C3_NoChildrenNoData ==
  HealthCalled /\ ~EpicIsDone /\ ~HasUnresolvedBlocker /\ HasNoChildren
    => output.health = "no-data"

\* C4: an epic that is not done, not blocked, has children and has no due
\* date gets verdict on-track for every progress percentage.
C4_NoDueDateOnTrack ==
  HealthCalled /\ ~EpicIsDone /\ ~HasUnresolvedBlocker /\ ~HasNoChildren /\ ~DueDateIsSet
    => output.health = "on-track"

C4_Witness ==
  /\ HealthCalled /\ ~EpicIsDone /\ ~HasUnresolvedBlocker /\ ~DueDateIsSet
  /\ ~HasNoChildren /\ GivenProgress = 0
  /\ output.health = "on-track"

\* C5: an epic that is not done, not blocked, has children, whose due date is
\* earlier than now and whose progress is below 100 gets verdict at-risk with
\* a reason that starts by flagging it as overdue.
C5_OverdueAtRisk ==
  HealthCalled /\ ~EpicIsDone /\ ~HasUnresolvedBlocker /\ ~HasNoChildren
    /\ DueIsPast /\ GivenProgress < 100
    => output.health = "at-risk" /\ output.reason[1] = "Overdue ("

C5_Witness ==
  /\ HealthCalled /\ ~EpicIsDone /\ ~HasUnresolvedBlocker /\ ~HasNoChildren
  /\ DueIsPast /\ GivenProgress = 67
  /\ CreatedIsParseable /\ input.epic.created.ms > input.epic.duedate.ms
  /\ output.health = "at-risk" /\ output.reason[1] = "Overdue ("

\* timeProgress as the claim defines it, for parseable dates
GivenTimeProgress ==
  LET created == input.epic.created.ms
      due == input.epic.duedate.ms
  IN IF due - created <= 0 THEN 100
     ELSE NearestInteger(100 * (input.now - created), due - created)

\* C6: for an epic that is not done, not blocked, has children and a due date
\* not yet past (creation date parseable), the verdict is at-risk exactly when
\* progress < timeProgress - 15 and on-track otherwise.
C6_BehindScheduleIffAtRisk ==
  HealthCalled /\ ~EpicIsDone /\ ~HasUnresolvedBlocker /\ ~HasNoChildren
    /\ DueIsParseable /\ CreatedIsParseable /\ input.now <= input.epic.duedate.ms
    => output.health = (IF GivenProgress < GivenTimeProgress - 15
                          THEN "at-risk" ELSE "on-track")

C6_Witness ==
  /\ HealthCalled /\ ~EpicIsDone /\ ~HasUnresolvedBlocker /\ ~HasNoChildren
  /\ DueIsParseable /\ CreatedIsParseable /\ input.now < input.epic.duedate.ms
  /\ GivenProgress = 67 /\ GivenTimeProgress = 75
  /\ output.health = "on-track"

\* C7: calculateEpicProgress of an absent or empty child list returns 0 for
\* total, done, inProgress, todo, totalPoints, completedPoints and progress.
C7_NoChildrenAllZero ==
  ProgressCalled /\ HasNoChildren
    => /\ output.total = 0 /\ output.done = 0 /\ output.inProgress = 0
       /\ output.todo = 0 /\ output.totalPoints = 0
       /\ output.completedPoints = 0 /\ output.progress = 0

C7_Witness ==
  /\ ProgressCalled /\ input.children.defined /\ Len(input.children.value) = 0
  /\ output.total = 0 /\ output.progress = 0

(***************************************************************************)
(* Properties of the Initiative Aggregator, stated on the arguments of     *)
(* the call and on the returned array.                                     *)
(***************************************************************************)
AggregateCalled == call = "aggregateByInitiative"

SuppliedKeys == {input.initiatives[i].key : i \in 1..Len(input.initiatives)}
ReturnedKeys == {output[i].key : i \in 1..Len(output)}

\* the input epics that belong to no supplied initiative
UnlinkedEpics ==
  {j \in 1..Len(input.epics) :
     input.epics[j].parentKey = UNDEFINED \/ input.epics[j].parentKey \notin SuppliedKeys}

\* the input epics that belong to the bucket with the given key
EpicsUnder(key) ==
  IF key = "_unlinked" THEN UnlinkedEpics
  ELSE {j \in 1..Len(input.epics) : input.epics[j].parentKey = key}

RECURSIVE SumTotalEpics(_)
SumTotalEpics(entries) ==
  IF entries = <<>> THEN 0
  ELSE Head(entries).totalEpics + SumTotalEpics(Tail(entries))

\* C8: the totalEpics of the returned entries add up to the number of input
\* epics, epics without parent or with an unknown parent included.
C8_TotalEpicsSum == AggregateCalled => SumTotalEpics(output) = Len(input.epics)

C8_Witness ==
  /\ AggregateCalled
  /\ SuppliedKeys = {"I-1"} /\ Len(input.epics) = 2
  /\ input.epics[1].parentKey = UNDEFINED /\ input.epics[2].parentKey = "I-2"
  /\ SumTotalEpics(output) = 2

\* the supplied initiative with the given key has status category done
OwnStatusDone(key) ==
  \E i \in 1..Len(input.initiatives) :
    input.initiatives[i].key = key /\ input.initiatives[i].statusCategory = "done"

\* the health that the priority order gives the bucket with the given key
HealthByPriority(key) ==
  LET mine == EpicsUnder(key)
  IN IF mine = {} THEN "no-data"
     ELSE IF OwnStatusDone(key)
             \/ \A j \in mine : input.epics[j].statusCategory = "done" THEN "done"
     ELSE IF \E j \in mine : input.epics[j].health = "blocked" THEN "blocked"
     ELSE IF \E j \in mine : input.epics[j].health = "at-risk" THEN "at-risk"
     ELSE "on-track"

\* C9: the health of every returned entry follows the priority order no-data
\* (zero epics), done (own status done or all epics done), blocked, at-risk,
\* on-track.
C9_HealthPriority ==
  AggregateCalled =>
    \A i \in 1..Len(output) : output[i].health = HealthByPriority(output[i].key)

C9_Witness ==
  /\ AggregateCalled
  /\ \E i \in 1..Len(output) :
       /\ output[i].key = "I-1" /\ ~OwnStatusDone("I-1")
       /\ Len(output[i].epics) = 2
       /\ output[i].epics[1].health = "at-risk"
       /\ output[i].epics[2].health = "blocked"
       /\ output[i].health = "blocked"

\* C10: the returned array has the _unlinked entry exactly when an input epic
\* was placed in it, and has every supplied initiative, also one without epics.
C10_UnlinkedIffUsed ==
  AggregateCalled =>
    /\ ("_unlinked" \in ReturnedKeys) <=> (UnlinkedEpics # {})
    /\ SuppliedKeys \subseteq ReturnedKeys

C10_Witness ==
  /\ AggregateCalled
  /\ SuppliedKeys = {"I-1", "I-2"}
  /\ Len(input.epics) = 1 /\ input.epics[1].parentKey = "I-1"
  /\ "_unlinked" \notin ReturnedKeys
  /\ \E i \in 1..Len(output) : output[i].key = "I-2" /\ output[i].totalEpics = 0

(***************************************************************************)
(* calculateEpicLeadCycleTime(epics) and the percentile helpers            *)
(***************************************************************************)
MaxResolved == 2
MaxWeeks == 2
MaxArr == 3

\* 1000 * 60 * 60 * 24 ms; the timestamps of this report count half days
Day == 2

\* Math.ceil(n / d) for d > 0
MathCeil(n, d) == -((-n) \div d)

\* Math.floor(n / d) for d > 0
MathFloor(n, d) == n \div d

\* [...arr].sort((a, b) => a - b)
RECURSIVE InsertAscending(_, _)
InsertAscending(x, s) ==
  IF s = <<>> THEN <<x>>
  ELSE IF x < Head(s) THEN <<x>> \o s
       ELSE <<Head(s)>> \o InsertAscending(x, Tail(s))

RECURSIVE SortAscending(_)
SortAscending(s) ==
  IF s = <<>> THEN <<>>
  ELSE InsertAscending(s[Len(s)], SortAscending(SubSeq(s, 1, Len(s) - 1)))

\* the index rounded down instead of up
percentileLeadTime_Floor(arr, p) ==
  IF Len(arr) = 0 THEN 0
  ELSE LET idx == MathFloor(Len(arr) * p, 100) - 1
       IN arr[(IF idx > 0 THEN idx ELSE 0) + 1]

\* percentile of calculateEpicLeadCycleTime (arrays are indexed from 1 here)
percentileLeadTime(arr, p) ==
  IF Len(arr) = 0 THEN 0
  ELSE LET idx == MathCeil(Len(arr) * p, 100) - 1
       IN arr[(IF idx > 0 THEN idx ELSE 0) + 1]

\* percentile of monteCarloForecast: arr[0] of an empty array is undefined
percentileForecast(arr, p) ==
  LET idx == MathCeil(Len(arr) * p, 100) - 1
      at == (IF idx > 0 THEN idx ELSE 0) + 1
  IN IF at <= Len(arr) THEN Some(arr[at]) ELSE Undefined

\* percentile of PrioritizationTab, which sorts a copy of the array first
percentileChart(arr, p) ==
  IF Len(arr) = 0 THEN 0
  ELSE LET sorted == SortAscending(arr)
           idx == MathCeil(Len(sorted) * p, 100) - 1
       IN sorted[(IF idx > 0 THEN idx ELSE 0) + 1]

\* Math.round((resolved - created) / Day)
LeadTimeDays(epic) ==
  LET diff == Minus(NewDate(epic.resolutionDate), NewDate(epic.created))
  IN IF diff.nan THEN NaNValue ELSE Num(MathRound(diff.ms, Day))

\* the filter that gives resolvedEpics
IsResolvedEpic(e) ==
  e.statusCategory = "done" /\ e.resolutionDate.kind # "absent"
    /\ e.created.kind # "absent"

RECURSIVE FilterResolved(_)
FilterResolved(epics) ==
  IF epics = <<>> THEN <<>>
  ELSE IF IsResolvedEpic(Head(epics))
         THEN <<Head(epics)>> \o FilterResolved(Tail(epics))
       ELSE FilterResolved(Tail(epics))

\* the loop over resolvedEpics: the details pushed, in order
RECURSIVE LeadTimeLoop(_)
LeadTimeLoop(resolvedEpics) ==
  IF resolvedEpics = <<>> THEN <<>>
  ELSE LET epic == Head(resolvedEpics)
           leadTimeDays == LeadTimeDays(epic)
       IN (IF Greater(leadTimeDays, Num(-1))
             THEN <<[key |-> epic.key, leadTimeDays |-> leadTimeDays.ms]>>
           ELSE <<>>) \o LeadTimeLoop(Tail(resolvedEpics))

\* epicDetails.sort((a, b) => b.leadTimeDays - a.leadTimeDays), a stable sort
RECURSIVE InsertByLeadTime(_, _)
InsertByLeadTime(x, s) ==
  IF s = <<>> THEN <<x>>
  ELSE IF x.leadTimeDays > Head(s).leadTimeDays THEN <<x>> \o s
       ELSE <<Head(s)>> \o InsertByLeadTime(x, Tail(s))

RECURSIVE SortByLeadTime(_)
SortByLeadTime(s) ==
  IF s = <<>> THEN <<>>
  ELSE InsertByLeadTime(Head(s), SortByLeadTime(Tail(s)))

RECURSIVE SumOf(_)
SumOf(s) == IF s = <<>> THEN 0 ELSE Head(s) + SumOf(Tail(s))

\* sorted.filter(d => d >= start && d < end).length
CountIn(sorted, start, end) ==
  Cardinality({i \in 1..Len(sorted) : sorted[i] >= start /\ sorted[i] < end})

\* the bucket made in one round of the histogram loop
Bucket(sorted, start) ==
  LET end == start + 7
  IN [range |-> ToString(start) \o "-" \o ToString(end) \o "d",
      start |-> start, end |-> end, count |-> CountIn(sorted, start, end)]

\* a loop that stops before the bucket of the maximum
RECURSIVE HistogramFrom_StopEarly(_, _, _)
HistogramFrom_StopEarly(start, sorted, maxDays) ==
  IF start + 7 <= maxDays
    THEN <<Bucket(sorted, start)>> \o HistogramFrom_StopEarly(start + 7, sorted, maxDays)
  ELSE <<>>

\* for (let start = 0; start <= maxDays; start += bucketSize)
RECURSIVE HistogramFrom(_, _, _)
HistogramFrom(start, sorted, maxDays) ==
  IF start <= maxDays
    THEN <<Bucket(sorted, start)>> \o HistogramFrom(start + 7, sorted, maxDays)
  ELSE <<>>

calculateEpicLeadCycleTime(epics) ==
  LET resolvedEpics == FilterResolved(epics)
      epicDetails == LeadTimeLoop(resolvedEpics)
      leadTimes == [i \in 1..Len(epicDetails) |-> epicDetails[i].leadTimeDays]
      sorted == SortAscending(leadTimes)
  IN [totalResolved |-> Len(resolvedEpics),
      average |-> IF Len(sorted) > 0 THEN MathRound(SumOf(sorted), Len(sorted)) ELSE 0,
      percentiles |-> [p50 |-> percentileLeadTime(sorted, 50),
                       p70 |-> percentileLeadTime(sorted, 70),
                       p85 |-> percentileLeadTime(sorted, 85),
                       p95 |-> percentileLeadTime(sorted, 95)],
      histogram |-> IF Len(sorted) > 0
                      THEN HistogramFrom(0, sorted, sorted[Len(sorted)])
                    ELSE <<>>,
      epics |-> SortByLeadTime(epicDetails)]

\* the timestamps of the report's epics, in half days: the first day and the
\* half days around each week boundary
Stamps == {0, 1} \cup UNION {{7 * Day * k - 1, 7 * Day * k} : k \in 1..MaxWeeks}

\* the evaluated epics given to the report
ResolvedEpicValues ==
  [statusCategory : {"done"},
   created : [kind : {"date"}, ms : {0, Day}],
   resolutionDate : [kind : {"date"}, ms : Stamps]]
  \cup [statusCategory : {"done"},
        created : {[kind |-> "date", ms |-> 0]},
        resolutionDate : {AbsentDate, InvalidDate}]
  \cup [statusCategory : {"indeterminate", "done"},
        created : {AbsentDate},
        resolutionDate : {[kind |-> "date", ms |-> 7 * Day]}]
  \cup [statusCategory : {"indeterminate"},
        created : {[kind |-> "date", ms |-> 0]},
        resolutionDate : {AbsentDate, [kind |-> "date", ms |-> 7 * Day]}]

\* the lists of k evaluated epics
ResolvedEpicLists(k) ==
  {[i \in 1..k |-> [key |-> "E-" \o ToString(i),
                    statusCategory |-> f[i].statusCategory,
                    created |-> f[i].created,
                    resolutionDate |-> f[i].resolutionDate]] :
     f \in [1..k -> ResolvedEpicValues]}

CalculateEpicLeadCycleTime ==
  /\ call = "none"
  /\ UNCHANGED frame
  /\ \E k \in 0..MaxResolved :
     \E epics \in ResolvedEpicLists(k) :
       /\ call' = "calculateEpicLeadCycleTime"
       /\ input' = [epics |-> epics]
       /\ output' = calculateEpicLeadCycleTime(epics)

NextLeadTime == CalculateEpicLeadCycleTime

SpecLeadTime == Init /\ [][NextLeadTime]_vars

(***************************************************************************)
(* Properties of the lead-time report, stated on the given epics.          *)
(***************************************************************************)
LeadTimeCalled == call = "calculateEpicLeadCycleTime"

\* the given epics that are done, have parseable creation and resolution
\* dates, and whose lead time, rounded to days, is not negative
CountedEpics ==
  {i \in 1..Len(input.epics) :
     /\ input.epics[i].statusCategory = "done"
     /\ input.epics[i].created.kind = "date"
     /\ input.epics[i].resolutionDate.kind = "date"
     /\ NearestInteger(input.epics[i].resolutionDate.ms - input.epics[i].created.ms, Day) >= 0}

GivenLeadTime(i) ==
  NearestInteger(input.epics[i].resolutionDate.ms - input.epics[i].created.ms, Day)

RECURSIVE SumCounts(_)
SumCounts(histogram) ==
  IF histogram = <<>> THEN 0 ELSE Head(histogram).count + SumCounts(Tail(histogram))

\* C11: the histogram buckets are the consecutive ranges [0,7), [7,14), ...
\* up to the one that contains the maximum lead time, and their counts add up
\* to the number of resolved epics with a non-negative lead time.
C11_HistogramCoversLeadTimes ==
  LeadTimeCalled =>
    LET h == output.histogram
    IN /\ \A i \in 1..Len(h) : h[i].start = 7 * (i - 1) /\ h[i].end = 7 * i
       /\ (CountedEpics = {}) <=> (Len(h) = 0)
       /\ \A i \in CountedEpics : GivenLeadTime(i) < h[Len(h)].end
       /\ CountedEpics # {} =>
            \E i \in CountedEpics : GivenLeadTime(i) >= h[Len(h)].start
       /\ SumCounts(h) = Cardinality(CountedEpics)

C11_Witness ==
  /\ LeadTimeCalled
  /\ Len(input.epics) = 2 /\ CountedEpics = {1}
  /\ GivenLeadTime(1) = 13 /\ GivenLeadTime(2) < 0
  /\ input.epics[2].statusCategory = "done"
  /\ input.epics[2].created.kind = "date" /\ input.epics[2].resolutionDate.kind = "date"
  /\ Len(output.histogram) = 2
  /\ output.histogram[1].count = 0 /\ output.histogram[2].count = 1

(***************************************************************************)
(* The three percentile helpers applied to the same array                  *)
(***************************************************************************)
\* the percentiles the program asks for, and the two ends of the scale
Percents == {0, 50, 70, 85, 90, 95, 100}

OneToTen == [i \in 1..10 |-> i]

\* arrays of at most MaxArr numbers in any order, and the array 1..10
NumberArrays == SeqsUpTo(1..MaxArr, MaxArr) \cup {OneToTen}

Percentile ==
  /\ call = "none"
  /\ UNCHANGED frame
  /\ \E arr \in NumberArrays, p \in Percents :
       /\ call' = "percentile"
       /\ input' = [arr |-> arr, p |-> p]
       /\ output' = [leadTime |-> percentileLeadTime(arr, p),
                     forecast |-> percentileForecast(arr, p),
                     chart |-> percentileChart(arr, p)]

NextPercentile == Percentile

SpecPercentile == Init /\ [][NextPercentile]_vars

PercentileCalled == call = "percentile"

IsAscending(arr) == \A i \in 1..(Len(arr) - 1) : arr[i] <= arr[i + 1]

\* ceil(N * p / 100): the least k with N * p <= 100 * k
NearestRank(n, p) == CHOOSE k \in 0..n : n * p <= 100 * k /\ 100 * (k - 1) < n * p

\* the element at index max(0, ceil(N * p / 100) - 1), indices counted from 0
NearestRankElement(arr, p) ==
  LET idx == NearestRank(Len(arr), p) - 1
  IN arr[(IF idx < 0 THEN 0 ELSE idx) + 1]

\* C12: on a non-empty ascending array the three percentile helpers return the
\* element at index max(0, ceil(N*p/100) - 1), so they agree; on 1..10 the
\* 50th percentile is 5 and the 85th is 9.
C12_PercentilesAgree ==
  PercentileCalled /\ Len(input.arr) > 0 /\ IsAscending(input.arr) =>
    /\ output.leadTime = NearestRankElement(input.arr, input.p)
    /\ output.forecast = Some(NearestRankElement(input.arr, input.p))
    /\ output.chart = NearestRankElement(input.arr, input.p)
    /\ input.arr = OneToTen /\ input.p = 50 => output.leadTime = 5
    /\ input.arr = OneToTen /\ input.p = 85 => output.leadTime = 9

C12_Witness ==
  /\ PercentileCalled /\ input.arr = OneToTen /\ input.p = 85
  /\ output.leadTime = 9 /\ output.forecast = Some(9) /\ output.chart = 9

(***************************************************************************)
(* calculateWSJF(epic, fieldMappings)                                      *)
(* Scores are fixed-point numbers: business value, time criticality, risk  *)
(* reduction, job size and cost of delay count tenths, wsjfScore counts    *)
(* hundredths.  Dates count days.                                          *)
(***************************************************************************)
MaxLabels == 2

\* x || d on optional numbers: undefined, null and 0 are falsy
NumberOr(x, d) == IF x.defined /\ x.value # 0 THEN x.value ELSE d

\* epic._rawFields?.[id], id being the custom field a mapping entry names
RawField(epic, id) ==
  IF epic.rawFields.defined /\ id # UNDEFINED /\ id \in DOMAIN epic.rawFields.value
    THEN epic.rawFields.value[id]
  ELSE Undefined

\* { Highest: 5, High: 4, Medium: 3, Low: 2, Lowest: 1 }[priority] || 3, in tenths
PriorityScore(priority) ==
  CASE priority = "Highest" -> 50
    [] priority = "High" -> 40
    [] priority = "Medium" -> 30
    [] priority = "Low" -> 20
    [] priority = "Lowest" -> 10
    [] OTHER -> 30

\* (new Date(epic.dueDate) - new Date()) / (1000 * 60 * 60 * 24)
DaysUntilDue(epic, now) == Minus(NewDate(epic.dueDate), Num(now))

\* a < b on numbers: any comparison with NaN is false
Less(a, b) == Greater(b, a)

\* the time criticality of the fallback mode
FallbackTimeCriticality(epic, now) ==
  IF epic.dueDate.kind # "absent"
    THEN LET daysUntilDue == DaysUntilDue(epic, now)
         IN IF Less(daysUntilDue, Num(14)) THEN 50
            ELSE IF Less(daysUntilDue, Num(30)) THEN 40
            ELSE IF Less(daysUntilDue, Num(60)) THEN 30
            ELSE IF Less(daysUntilDue, Num(90)) THEN 20
            ELSE 10
  ELSE 20

\* the composite business value of the fallback mode
FallbackBusinessValue(epic) ==
  LET basePriority == PriorityScore(epic.priority)
      childCount == epic.children.total
      childBonus == IF childCount >= 20 THEN 20
                    ELSE IF childCount >= 10 THEN 15
                    ELSE IF childCount >= 5 THEN 10
                    ELSE 5
      progressBonus == IF epic.progress > 50 THEN 5 ELSE 0
      healthBonus == IF epic.health = "blocked" THEN 10
                     ELSE IF epic.health = "at-risk" THEN 5
                     ELSE 0
      sum == basePriority + childBonus + progressBonus + healthBonus
  IN IF sum < 80 THEN sum ELSE 80

\* the job size used as it comes
ClampJobSize_None(jobSize) == jobSize

\* jobSize = Math.max(jobSize, 0.5)
ClampJobSize(jobSize) == IF jobSize > 5 THEN jobSize ELSE 5

calculateWSJF(epic, fieldMappings, now) ==
  LET mapped == fieldMappings.defined
      businessValue ==
        IF mapped THEN NumberOr(RawField(epic, fieldMappings.value.businessValue), 0)
        ELSE FallbackBusinessValue(epic)
      timeCriticality ==
        IF mapped THEN NumberOr(RawField(epic, fieldMappings.value.timeCriticality), 0)
        ELSE FallbackTimeCriticality(epic, now)
      riskReduction ==
        IF mapped THEN NumberOr(RawField(epic, fieldMappings.value.riskReduction), 0)
        ELSE IF epic.health = "blocked" THEN 40
        ELSE IF epic.health = "at-risk" THEN 30
        ELSE 20
      rawJobSize ==
        IF mapped
          THEN NumberOr(RawField(epic, fieldMappings.value.jobSize),
                        IF epic.children.totalPoints # 0 THEN epic.children.totalPoints ELSE 10)
        ELSE IF epic.children.totalPoints # 0 THEN epic.children.totalPoints
        ELSE IF epic.storyPoints # 0 THEN epic.storyPoints
        ELSE 10
      jobSize == ClampJobSize(rawJobSize)
      costOfDelay == businessValue + timeCriticality + riskReduction
  IN [businessValue |-> businessValue,
      timeCriticality |-> timeCriticality,
      riskReduction |-> riskReduction,
      jobSize |-> jobSize,
      costOfDelay |-> costOfDelay,
      wsjfScore |-> MathRound(costOfDelay * 100, jobSize)]

\* the field mapping configuration: none, every field mapped, or only the
\* MoSCoW field mapped
FullMapping ==
  [businessValue |-> "cf_1", timeCriticality |-> "cf_2", riskReduction |-> "cf_3",
   jobSize |-> "cf_4", moscow |-> "cf_5"]
MoscowOnlyMapping ==
  [businessValue |-> UNDEFINED, timeCriticality |-> UNDEFINED,
   riskReduction |-> UNDEFINED, jobSize |-> UNDEFINED, moscow |-> "cf_5"]
FieldMappings == {Undefined, Some(FullMapping), Some(MoscowOnlyMapping)}

\* the raw numeric custom fields of an epic, in tenths
RawNumbers ==
  [cf_1 : {Undefined, Some(50), Some(10)},
   cf_2 : {Undefined, Some(30)},
   cf_3 : {Undefined, Some(20)},
   cf_4 : {Undefined, Some(0), Some(2), Some(20), Some(80)}]

\* days on both sides of the thresholds 14, 30, 60 and 90, and a past day
DueDays == {-5, 13, 14, 29, 30, 59, 60, 89, 90}
DueDates == {AbsentDate, InvalidDate} \cup [kind : {"date"}, ms : DueDays]

\* an evaluated epic as the prioritization reads it
PriorityEpic(priority, health, total, totalPoints, storyPoints, progress, dueDate, labels, rawFields) ==
  [priority |-> priority, health |-> health,
   children |-> [total |-> total, totalPoints |-> totalPoints],
   storyPoints |-> storyPoints, progress |-> progress, dueDate |-> dueDate,
   labels |-> labels, rawFields |-> rawFields]

Priorities == {"Highest", "High", "Medium", "Low", "Lowest", "None"}
ActiveHealths == {"blocked", "at-risk", "on-track"}

\* epics whose signals drive the fallback mode
FallbackEpics ==
  {PriorityEpic(pr, h, n, tp, sp, pg, due, Undefined, Undefined) :
     pr \in {"Highest", "Low", "None"}, h \in ActiveHealths, n \in {0, 5, 10, 20},
     tp \in {0, 30}, sp \in {0, 80}, pg \in {0, 60}, due \in DueDates}

\* epics whose custom fields drive the mapped mode
MappedEpics ==
  {PriorityEpic("Medium", "on-track", 3, tp, 0, 0, AbsentDate, Undefined, raw) :
     tp \in {0, 30},
     raw \in {Undefined} \cup {Some(r @@ [cf_5 |-> Undefined]) : r \in RawNumbers}}

CalculateWSJF ==
  /\ call = "none"
  /\ UNCHANGED frame
  /\ \E fieldMappings \in FieldMappings, now \in {0, 1} :
       \E epic \in (IF fieldMappings.defined THEN MappedEpics ELSE FallbackEpics) :
         /\ call' = "calculateWSJF"
         /\ input' = [epic |-> epic, fieldMappings |-> fieldMappings, now |-> now]
         /\ output' = calculateWSJF(epic, fieldMappings, now)

NextWSJF == CalculateWSJF

SpecWSJF == Init /\ [][NextWSJF]_vars

(***************************************************************************)
(* categorizeMoSCoW(epic, fieldMappings)                                   *)
(* A label or a field text is a sequence of characters; the composite      *)
(* score counts tenths.                                                    *)
(***************************************************************************)
\* String.prototype.includes
Includes(s, sub) ==
  \E i \in 0..(Len(s) - Len(sub)) : SubSeq(s, i + 1, i + Len(sub)) = sub

MustText == <<"m", "u", "s", "t">>
ShouldText == <<"s", "h", "o", "u", "l", "d">>
CouldText == <<"c", "o", "u", "l", "d">>
WontText == <<"w", "o", "n", "t">>
WontApostropheText == <<"w", "o", "n", "'", "t">>

\* (epic.labels || []).map(l => l.toLowerCase())
LowerLabels(epic) ==
  IF epic.labels.defined
    THEN [i \in 1..Len(epic.labels.value) |-> toLowerCase(epic.labels.value[i])]
  ELSE <<>>

\* labels.some(l => l.includes(sub))
SomeIncludes(labels, sub) == \E i \in 1..Len(labels) : Includes(labels[i], sub)

\* the category an explicit label gives, UNDEFINED when no label matches
LabelCategory(labels) ==
  IF SomeIncludes(labels, MustText) THEN "Must Have"
  ELSE IF SomeIncludes(labels, ShouldText) THEN "Should Have"
  ELSE IF SomeIncludes(labels, CouldText) THEN "Could Have"
  ELSE IF SomeIncludes(labels, WontText) \/ SomeIncludes(labels, WontApostropheText)
    THEN "Won't Have"
  ELSE UNDEFINED

\* the category the mapped custom field gives, UNDEFINED when it is not
\* mapped, empty or matches nothing
FieldCategory(epic, fieldMappings) ==
  LET id == IF fieldMappings.defined THEN fieldMappings.value.moscow ELSE UNDEFINED
      raw == RawField(epic, id)
  IN IF id # UNDEFINED /\ raw.defined /\ raw.value # <<>>
       THEN LET val == toLowerCase(raw.value)
            IN IF Includes(val, MustText) THEN "Must Have"
               ELSE IF Includes(val, ShouldText) THEN "Should Have"
               ELSE IF Includes(val, CouldText) THEN "Could Have"
               ELSE IF Includes(val, WontText) \/ Includes(val, WontApostropheText)
                 THEN "Won't Have"
               ELSE UNDEFINED
     ELSE UNDEFINED

\* the composite score without the deduction for small epics
CompositeScore_NoPenalty(epic, now) ==
  LET priorityScore == PriorityScore(epic.priority)
      childCount == epic.children.total
      hasDueDate == epic.dueDate.kind # "absent"
      daysUntilDue == IF hasDueDate THEN DaysUntilDue(epic, now) ELSE Num(999)
  IN priorityScore
     + (IF epic.health = "blocked" THEN 15 ELSE 0)
     + (IF epic.health = "at-risk" THEN 10 ELSE 0)
     + (IF childCount >= 15 THEN 10 ELSE 0)
     + (IF Less(daysUntilDue, Num(30)) THEN 15
        ELSE IF Less(daysUntilDue, Num(60)) THEN 5 ELSE 0)

\* score = priorityScore, then the additions and the deduction
CompositeScore(epic, now) ==
  LET priorityScore == PriorityScore(epic.priority)
      childCount == epic.children.total
      hasDueDate == epic.dueDate.kind # "absent"
      daysUntilDue == IF hasDueDate THEN DaysUntilDue(epic, now) ELSE Num(999)
  IN priorityScore
     + (IF epic.health = "blocked" THEN 15 ELSE 0)
     + (IF epic.health = "at-risk" THEN 10 ELSE 0)
     + (IF childCount >= 15 THEN 10 ELSE 0)
     + (IF Less(daysUntilDue, Num(30)) THEN 15
        ELSE IF Less(daysUntilDue, Num(60)) THEN 5 ELSE 0)
     - (IF childCount <= 2 /\ ~hasDueDate THEN 10 ELSE 0)

ScoreCategory(score) ==
  IF score >= 60 THEN "Must Have"
  ELSE IF score >= 45 THEN "Should Have"
  ELSE IF score >= 30 THEN "Could Have"
  ELSE "Won't Have"

\* the mapped field consulted before the labels
categorizeMoSCoW_FieldFirst(epic, fieldMappings, now) ==
  LET byLabel == LabelCategory(LowerLabels(epic))
      byField == FieldCategory(epic, fieldMappings)
  IN IF byField # UNDEFINED THEN byField
     ELSE IF byLabel # UNDEFINED THEN byLabel
     ELSE ScoreCategory(CompositeScore(epic, now))

categorizeMoSCoW(epic, fieldMappings, now) ==
  LET byLabel == LabelCategory(LowerLabels(epic))
      byField == FieldCategory(epic, fieldMappings)
  IN IF byLabel # UNDEFINED THEN byLabel
     ELSE IF byField # UNDEFINED THEN byField
     ELSE ScoreCategory(CompositeScore(epic, now))

\* the labels "MUST", "Could", "won't", "api"
LabelValues ==
  {<<"M", "U", "S", "T">>, <<"C", "o", "u", "l", "d">>,
   <<"w", "o", "n", "'", "t">>, <<"a", "p", "i">>}
LabelLists == {Undefined} \cup {Some(l) : l \in SeqsUpTo(LabelValues, MaxLabels)}

\* the texts '', "Must", "Should", "wont", "n/a" of the MoSCoW custom field
MoscowTexts ==
  {<<>>, <<"M", "u", "s", "t">>, <<"S", "h", "o", "u", "l", "d">>,
   <<"w", "o", "n", "t">>, <<"n", "/", "a">>}
MoscowRawFields ==
  {Undefined} \cup
  {Some([cf_1 |-> Undefined, cf_2 |-> Undefined, cf_3 |-> Undefined,
         cf_4 |-> Undefined, cf_5 |-> Some(x)]) : x \in MoscowTexts}

\* the configurations with the raw fields they are met with
MoscowSettings ==
  ({Undefined} \X {Undefined, Some([cf_1 |-> Undefined, cf_2 |-> Undefined,
                                     cf_3 |-> Undefined, cf_4 |-> Undefined,
                                     cf_5 |-> Some(<<"M", "u", "s", "t">>)])})
  \cup ({Some(FullMapping)} \X MoscowRawFields)

MoscowDueDates == {AbsentDate, InvalidDate} \cup [kind : {"date"}, ms : {29, 30, 59, 60}]

MoscowEpics(raw) ==
  {PriorityEpic(pr, h, n, 0, 0, 0, due, labels, raw) :
     pr \in Priorities, h \in ActiveHealths, n \in {2, 3, 14, 15},
     due \in MoscowDueDates, labels \in LabelLists}

CategorizeMoSCoW ==
  /\ call = "none"
  /\ UNCHANGED frame
  /\ \E setting \in MoscowSettings :
       \E epic \in MoscowEpics(setting[2]) :
         /\ call' = "categorizeMoSCoW"
         /\ input' = [epic |-> epic, fieldMappings |-> setting[1], now |-> 0]
         /\ output' = categorizeMoSCoW(epic, setting[1], 0)

NextMoSCoW == CategorizeMoSCoW

SpecMoSCoW == Init /\ [][NextMoSCoW]_vars

(***************************************************************************)
(* Properties of calculateWSJF and categorizeMoSCoW                        *)
(***************************************************************************)
WSJFCalled == call = "calculateWSJF"

\* the value the epic carries in the custom field mapped to `name`
GivenMappedField(name) ==
  LET id == input.fieldMappings.value[name]
      raw == input.epic.rawFields
  IN IF id # UNDEFINED /\ raw.defined THEN raw.value[id] ELSE Undefined

\* the job size before the lower limit: the mapped field, else the child
\* total points, (else the epic's own story points in fallback mode,) else 1
GivenJobSize ==
  LET e == input.epic
      byChildren == IF e.children.totalPoints > 0 THEN e.children.totalPoints ELSE 10
  IN IF input.fieldMappings.defined
       THEN LET js == GivenMappedField("jobSize")
            IN IF js.defined /\ js.value # 0 THEN js.value ELSE byChildren
     ELSE IF e.children.totalPoints > 0 THEN e.children.totalPoints
     ELSE IF e.storyPoints > 0 THEN e.storyPoints
     ELSE 10

\* businessValue 5, timeCriticality 3, riskReduction 2 and jobSize `js`
\* supplied through mapped fields
MappedValuesAre(js) ==
  /\ input.fieldMappings = Some(FullMapping)
  /\ GivenMappedField("businessValue") = Some(50)
  /\ GivenMappedField("timeCriticality") = Some(30)
  /\ GivenMappedField("riskReduction") = Some(20)
  /\ GivenMappedField("jobSize") = Some(js)

\* C13: in both modes wsjfScore is (businessValue + timeCriticality +
\* riskReduction) / max(jobSize, 0.5) rounded to two decimals, the divisor
\* is never below 0.5, and mapped values 5, 3, 2 with job size 2 score 5.0
C13_WSJFScore ==
  WSJFCalled =>
    LET costOfDelay == output.businessValue + output.timeCriticality + output.riskReduction
        divisor == IF GivenJobSize > 5 THEN GivenJobSize ELSE 5
    IN /\ output.jobSize = divisor
       /\ output.jobSize >= 5
       /\ output.costOfDelay = costOfDelay
       /\ output.wsjfScore = NearestInteger(100 * costOfDelay, divisor)
       /\ MappedValuesAre(20) => output.wsjfScore = 500

\* mapped values 5, 3, 2 with a job size of 0.2: the divisor is 0.5, the score 20
C13_Witness ==
  /\ WSJFCalled
  /\ MappedValuesAre(2)
  /\ output.jobSize = 5
  /\ output.wsjfScore = 2000

MoSCoWCalled == call = "categorizeMoSCoW"

\* the epic has a label that contains `sub`, whatever the case of its letters
HasLabelContaining(sub) ==
  /\ input.epic.labels.defined
  /\ \E i \in 1..Len(input.epic.labels.value) :
       LET label == input.epic.labels.value[i]
       IN \E k \in 1..Len(label) :
            /\ k + Len(sub) - 1 <= Len(label)
            /\ \A j \in 1..Len(sub) : LowerChar(label[k + j - 1]) = sub[j]

\* C14: an epic that has a label containing 'must' (case-insensitive) is
\* categorised 'Must Have', whatever its other labels, mapped MoSCoW field,
\* priority, health, child count and due date are
C14_MustLabelWins ==
  (MoSCoWCalled /\ HasLabelContaining(MustText)) => output = "Must Have"

\* a 'MUST' label after a 'won't' label, a mapped field saying "wont", and
\* signals whose composite score is the lowest
C14_Witness ==
  /\ MoSCoWCalled
  /\ HasLabelContaining(MustText)
  /\ HasLabelContaining(WontApostropheText)
  /\ input.fieldMappings.defined
  /\ GivenMappedField("moscow") = Some(<<"w", "o", "n", "t">>)
  /\ input.epic.priority = "Lowest"
  /\ input.epic.health = "on-track"
  /\ input.epic.children.total = 2
  /\ input.epic.dueDate = AbsentDate
  /\ output = "Must Have"

MoscowKeywords == {MustText, ShouldText, CouldText, WontText, WontApostropheText}

\* the mapped MoSCoW field holds a text that contains `sub`
MappedFieldContains(sub) ==
  /\ input.fieldMappings.defined
  /\ LET f == GivenMappedField("moscow")
     IN /\ f.defined
        /\ \E k \in 1..Len(f.value) :
             /\ k + Len(sub) - 1 <= Len(f.value)
             /\ \A j \in 1..Len(sub) : LowerChar(f.value[k + j - 1]) = sub[j]

NoLabelOrFieldMatches ==
  \A sub \in MoscowKeywords : ~HasLabelContaining(sub) /\ ~MappedFieldContains(sub)

KnownTiers == {"Highest", "High", "Medium", "Low", "Lowest"}

\* the priority tier, Highest 5 ... Lowest 1, in tenths
GivenTier ==
  LET p == input.epic.priority
  IN 10 * (CHOOSE t \in 1..5 :
             <<p, t>> \in {<<"Highest", 5>>, <<"High", 4>>, <<"Medium", 3>>,
                           <<"Low", 2>>, <<"Lowest", 1>>})

\* the due date is a date fewer than `days` days after now
DueWithin(days) ==
  input.epic.dueDate.kind = "date" /\ input.epic.dueDate.ms - input.now < days

\* the composite score of the given epic, in tenths
GivenScore ==
  LET e == input.epic
  IN GivenTier
     + (IF e.health = "blocked" THEN 15 ELSE 0)
     + (IF e.health = "at-risk" THEN 10 ELSE 0)
     + (IF e.children.total >= 15 THEN 10 ELSE 0)
     + (IF DueWithin(30) THEN 15 ELSE IF DueWithin(60) THEN 5 ELSE 0)
     - (IF e.children.total <= 2 /\ e.dueDate.kind = "absent" THEN 10 ELSE 0)

\* C15: when no label and no mapped field matches, the category is the one
\* of the composite score: tier, +1.5 blocked, +1 at-risk, +1 for 15 or more
\* children, +1.5 due in under 30 days else +0.5 under 60, -1 for at most 2
\* children and no due date; >= 6 Must, >= 4.5 Should, >= 3 Could, else Won't
C15_CompositeScoreCategory ==
  (MoSCoWCalled /\ NoLabelOrFieldMatches /\ input.epic.priority \in KnownTiers) =>
    output = (IF GivenScore >= 60 THEN "Must Have"
              ELSE IF GivenScore >= 45 THEN "Should Have"
              ELSE IF GivenScore >= 30 THEN "Could Have"
              ELSE "Won't Have")

\* a Medium, on-track epic of 2 children without due date: 3 - 1 = 2, Won't Have
C15_Witness ==
  /\ MoSCoWCalled
  /\ NoLabelOrFieldMatches
  /\ input.epic.priority = "Medium"
  /\ input.epic.health = "on-track"
  /\ input.epic.children.total = 2
  /\ input.epic.dueDate = AbsentDate
  /\ GivenScore = 20
  /\ output = "Won't Have"

(***************************************************************************)
(* monteCarloForecast(historicalThroughput, remainingItems, simulations)   *)
(* The call runs in steps: one step per sampled period, the random index   *)
(* being any index of the throughput values.                               *)
(***************************************************************************)
MaxHistory == 2
MaxRemaining == 3
MaxSims == 2
MaxOutcomes == 100

\* !historicalThroughput || historicalThroughput.length === 0 || remainingItems <= 0,
\* without the test of remainingItems
InsufficientData_IgnoreRemaining(historicalThroughput, remainingItems) ==
  \/ ~historicalThroughput.defined
  \/ Len(historicalThroughput.value) = 0

\* !historicalThroughput || historicalThroughput.length === 0 || remainingItems <= 0
InsufficientData(historicalThroughput, remainingItems) ==
  \/ ~historicalThroughput.defined
  \/ Len(historicalThroughput.value) = 0
  \/ remainingItems <= 0

InsufficientResult(remainingItems) ==
  [remainingItems |-> remainingItems,
   simulations |-> 0,
   percentiles |-> <<>>,
   distribution |-> <<>>,
   message |-> "Insufficient data for forecast"]

\* historicalThroughput.map(t => t.count)
throughputValues(historicalThroughput) ==
  [i \in 1..Len(historicalThroughput.value) |-> historicalThroughput.value[i].count]

\* the loop entered once more with no items left
WhileCondition_Inclusive(itemsLeft, periods) == itemsLeft >= 0 /\ periods < 100

\* the cap tested one period late
WhileCondition_CapLate(itemsLeft, periods) == itemsLeft > 0 /\ periods <= 100

\* while (itemsLeft > 0 && periods < 100)
WhileCondition(itemsLeft, periods) == itemsLeft > 0 /\ periods < 100

\* the trials strictly below the horizon
DistributionCount_Strict(completionDays, p) ==
  Cardinality({i \in 1..Len(completionDays) : completionDays[i] < p})

\* completionDays.filter(d => d <= p).length
DistributionCount(completionDays, p) ==
  Cardinality({i \in 1..Len(completionDays) : completionDays[i] <= p})

\* the trial outcomes left in the order they were collected
SortCompletionDays_None(completionDays) == completionDays

\* completionDays.sort((a, b) => a - b)
SortCompletionDays(completionDays) == SortAscending(completionDays)

\* periodToDate(periods): the day `periods` calendar months after now
periodToDate(periods) == [monthsFromNow |-> periods]

\* the distribution histogram, for p = 1 .. Math.min(maxPeriods, 24)
Distribution(completionDays, simulations) ==
  LET maxPeriods == completionDays[Len(completionDays)]
      last == IF maxPeriods < 24 THEN maxPeriods ELSE 24
  IN [p \in 1..last |->
        [periods |-> p,
         date |-> periodToDate(p),
         probability |-> MathRound(DistributionCount(completionDays, p) * 100, simulations)]]

\* Math.round(sum / length * 10) / 10, in tenths
AvgThroughput(values) == MathRound(SumOf(values) * 10, Len(values))

\* the forecast returned from the sorted completionDays of at least one trial
ForecastResult(historicalThroughput, remainingItems, simulations, completionDays) ==
  LET p50 == percentileForecast(completionDays, 50).value
      p85 == percentileForecast(completionDays, 85).value
      p95 == percentileForecast(completionDays, 95).value
  IN [remainingItems |-> remainingItems,
      simulations |-> simulations,
      avgThroughput |-> AvgThroughput(throughputValues(historicalThroughput)),
      percentiles |->
        [p50 |-> [periods |-> p50, date |-> periodToDate(p50), confidence |-> "50%"],
         p85 |-> [periods |-> p85, date |-> periodToDate(p85), confidence |-> "85%"],
         p95 |-> [periods |-> p95, date |-> periodToDate(p95), confidence |-> "95%"]],
      distribution |-> Distribution(completionDays, simulations)]

\* the numbers of items completed in a period
ThroughputCounts == {0, 1, 2, 5}

\* the histories of at most MaxHistory periods; the order of the periods
\* plays no part in a forecast, so they are listed by ascending count
ThroughputHistories ==
  {h \in SeqsUpTo([count : ThroughputCounts], MaxHistory) :
     \A i \in 1..(Len(h) - 1) : h[i].count <= h[i + 1].count}

HistoricalThroughputs == {Undefined} \cup {Some(h) : h \in ThroughputHistories}

\* a negative backlog, none, a small one, one that [5] clears in 2 periods
\* and one that [1] does not clear in 100
RemainingItems == {-1, 0} \cup (1..MaxRemaining) \cup {10, 101}

SimulationCounts == 0..MaxSims

Range(s) == {s[i] : i \in 1..Len(s)}

\* the fewest and the most periods a trial of the call can take
FewestPeriods(values, remainingItems) ==
  LET most == CHOOSE v \in Range(values) : \A w \in Range(values) : w <= v
      needed == IF most = 0 THEN 100 ELSE MathCeil(remainingItems, most)
  IN IF remainingItems <= 0 THEN 0 ELSE IF needed < 100 THEN needed ELSE 100
MostPeriods(values, remainingItems) ==
  LET least == CHOOSE v \in Range(values) : \A w \in Range(values) : v <= w
      needed == IF least = 0 THEN 100 ELSE MathCeil(remainingItems, least)
  IN IF remainingItems <= 0 THEN 0 ELSE IF needed < 100 THEN needed ELSE 100

\* the calls made: those whose trials have at most MaxOutcomes joint outcomes
ForecastCalls ==
  {c \in [historicalThroughput : HistoricalThroughputs,
          remainingItems : RemainingItems, simulations : SimulationCounts] :
     \/ ~c.historicalThroughput.defined
     \/ c.historicalThroughput.value = <<>>
     \/ LET values == throughputValues(c.historicalThroughput)
            spread == MostPeriods(values, c.remainingItems)
                        - FewestPeriods(values, c.remainingItems) + 1
        IN spread ^ c.simulations <= MaxOutcomes}

\* entry of the call: the guard returns at once, or the trials begin
MonteCarloForecast ==
  /\ call = "none"
  /\ \E c \in ForecastCalls :
       /\ call' = "monteCarloForecast"
       /\ input' = c
       /\ IF InsufficientData(c.historicalThroughput, c.remainingItems)
            THEN /\ output' = InsufficientResult(c.remainingItems)
                 /\ frame' = [NoFrame EXCEPT !.pc = "returned"]
          ELSE /\ output' = output
               /\ frame' = [NoFrame EXCEPT !.pc = "for"]

\* for (let sim = 0; sim < simulations; sim++): begin a trial or leave the loop
BeginTrial ==
  /\ frame.pc = "for"
  /\ IF frame.sim < input.simulations
       THEN frame' = [frame EXCEPT !.pc = "while",
                                   !.itemsLeft = input.remainingItems,
                                   !.periods = 0]
     ELSE frame' = [frame EXCEPT !.pc = "sort"]
  /\ UNCHANGED <<call, input, output>>

\* one pass of the while body: a random period of the history is consumed
SamplePeriod ==
  /\ frame.pc = "while"
  /\ WhileCondition(frame.itemsLeft, frame.periods)
  /\ LET values == throughputValues(input.historicalThroughput)
     IN \E randomIdx \in 1..Len(values) :
          frame' = [frame EXCEPT !.throughput = values[randomIdx],
                                 !.itemsLeft = @ - values[randomIdx],
                                 !.periods = @ + 1]
  /\ UNCHANGED <<call, input, output>>

\* completionDays.push(periods); the locals of the trial go out of scope
EndTrial ==
  /\ frame.pc = "while"
  /\ ~WhileCondition(frame.itemsLeft, frame.periods)
  /\ frame' = [frame EXCEPT !.completionDays = Append(@, frame.periods),
                            !.sim = @ + 1,
                            !.itemsLeft = 0, !.periods = 0, !.throughput = 0,
                            !.pc = "for"]
  /\ UNCHANGED <<call, input, output>>

\* sort, percentiles, distribution and the returned object.  With no trial
\* the percentiles are undefined, periodToDate(undefined) makes an Invalid
\* Date and its toISOString() throws a RangeError
BuildForecast ==
  /\ frame.pc = "sort"
  /\ LET sorted == SortCompletionDays(frame.completionDays)
     IN IF percentileForecast(sorted, 50).defined
          THEN /\ output' = ForecastResult(input.historicalThroughput, input.remainingItems,
                                           input.simulations, sorted)
               /\ frame' = [frame EXCEPT !.pc = "returned", !.completionDays = sorted]
        ELSE /\ output' = output
             /\ frame' = [frame EXCEPT !.pc = "threw", !.completionDays = sorted]
  /\ UNCHANGED <<call, input>>

NextForecast ==
  MonteCarloForecast \/ BeginTrial \/ SamplePeriod \/ EndTrial \/ BuildForecast

SpecForecast == Init /\ [][NextForecast]_vars

\* a call that has begun is run to its end
FairSpecForecast ==
  /\ SpecForecast
  /\ WF_vars(BeginTrial) /\ WF_vars(SamplePeriod) /\ WF_vars(EndTrial)
  /\ WF_vars(BuildForecast)

(***************************************************************************)
(* Properties of monteCarloForecast                                        *)
(***************************************************************************)
ForecastCalled == call = "monteCarloForecast"

\* the call was given a history of at least one period
HistoryGiven ==
  input.historicalThroughput.defined /\ input.historicalThroughput.value # <<>>

\* the counts of the given history
GivenCounts == {input.historicalThroughput.value[i].count :
                  i \in 1..Len(input.historicalThroughput.value)}

\* the call has returned a full forecast
FullForecastReturned ==
  /\ ForecastCalled
  /\ HistoryGiven
  /\ input.remainingItems > 0
  /\ frame.pc = "returned"

\* min(100, ceil(remainingItems / c))
PeriodsAtRate(c) ==
  LET r == input.remainingItems
      needed == CHOOSE k \in 1..r : k * c >= r /\ (k - 1) * c < r
  IN IF needed < 100 THEN needed ELSE 100

\* C16: when every historical count is the same c > 0, every trial takes
\* min(100, ceil(remainingItems / c)) periods whatever is sampled, so p50,
\* p85 and p95 are that value; counts [5] and 10 remaining items give 2
C16_ConstantThroughput ==
  (ForecastCalled /\ HistoryGiven /\ input.remainingItems > 0) =>
    \A c \in GivenCounts :
      (GivenCounts = {c} /\ c > 0) =>
        /\ \A i \in 1..Len(frame.completionDays) :
             frame.completionDays[i] = PeriodsAtRate(c)
        /\ (frame.pc = "returned") =>
             (/\ output.percentiles.p50.periods = PeriodsAtRate(c)
              /\ output.percentiles.p85.periods = PeriodsAtRate(c)
              /\ output.percentiles.p95.periods = PeriodsAtRate(c)
              /\ ((c = 5 /\ input.remainingItems = 10) =>
                   output.percentiles.p50.periods = 2))

\* the forecast of 10 remaining items from the history [5] by two trials
C16_Witness ==
  /\ FullForecastReturned
  /\ throughputValues(input.historicalThroughput) = <<5>>
  /\ input.remainingItems = 10
  /\ input.simulations = 2
  /\ frame.completionDays = <<2, 2>>
  /\ output.percentiles.p50.periods = 2
  /\ output.percentiles.p85.periods = 2
  /\ output.percentiles.p95.periods = 2

\* C17: with an absent or empty history, or with remainingItems <= 0, the
\* call runs no trial and returns the insufficient-data result: simulations
\* 0, empty percentiles, empty distribution and the message
C17_InsufficientData ==
  (ForecastCalled /\ (~HistoryGiven \/ input.remainingItems <= 0)) =>
    /\ frame.pc = "returned"
    /\ frame.sim = 0
    /\ frame.completionDays = <<>>
    /\ output.remainingItems = input.remainingItems
    /\ output.simulations = 0
    /\ DOMAIN output.percentiles = {}
    /\ output.distribution = <<>>
    /\ output.message = "Insufficient data for forecast"

\* a history is given but nothing remains, two trials being asked for
C17_Witness ==
  /\ ForecastCalled
  /\ HistoryGiven
  /\ input.remainingItems = 0
  /\ input.simulations = 2
  /\ frame.pc = "returned"
  /\ output.simulations = 0
  /\ output.message = "Insufficient data for forecast"

\* C18: for every history, remainingItems and simulation count >= 0 the
\* call returns a result object and never raises an exception
C18_NeverThrows ==
  ForecastCalled => frame.pc # "threw"

\* the items the trial under way has sampled so far
SampledSoFar == input.remainingItems - frame.itemsLeft

\* a step that samples one more period of a trial
SamplesOnePeriod ==
  /\ frame.pc = "while"
  /\ frame'.pc = "while"
  /\ frame'.periods # frame.periods

\* a step that records the period count of a trial
RecordsTrial ==
  /\ frame.pc = "while"
  /\ Len(frame'.completionDays) = Len(frame.completionDays) + 1

\* a period is sampled only while the sampled total is below
\* remainingItems, and it is one of at most 100
SamplesWhileItemsLeft ==
  SamplesOnePeriod =>
    /\ SampledSoFar < input.remainingItems
    /\ frame'.periods = frame.periods + 1
    /\ frame'.periods <= 100

\* the recorded count is in 1..100, and one below 100 is recorded only when
\* the last sample made the sampled total reach remainingItems
RecordsWhenReached ==
  RecordsTrial =>
    LET recorded == frame'.completionDays[Len(frame'.completionDays)]
    IN /\ recorded = frame.periods
       /\ recorded \in 1..100
       /\ (recorded < 100) =>
            (/\ SampledSoFar >= input.remainingItems
             /\ SampledSoFar - frame.throughput < input.remainingItems)

\* C19: every trial terminates whatever is sampled, all zeros included,
\* and records a period count in 1..100; a count below 100 is recorded only
\* in the step where the sampled total first reaches remainingItems
C19_TrialsTerminate ==
  /\ [][SamplesWhileItemsLeft /\ RecordsWhenReached]_vars
  /\ (ForecastCalled /\ frame.pc = "while") ~> (frame.pc = "for")

\* a trial on the history [0, 1] that sampled 55 zeros before the backlog
\* of 2 was cleared
C19_Witness ==
  /\ ForecastCalled
  /\ HistoryGiven
  /\ GivenCounts = {0, 1}
  /\ input.remainingItems = 2
  /\ frame.completionDays = <<57>>

\* the trials that took at most h periods
TrialsWithin(h) ==
  Cardinality({i \in 1..Len(frame.completionDays) : frame.completionDays[i] <= h})

\* the largest period count of any trial
LargestPeriods ==
  CHOOSE m \in Range(frame.completionDays) : \A d \in Range(frame.completionDays) : d <= m

\* C20: the distribution has one entry for each horizon h = 1 .. min(M, 24)
\* in ascending order, M being the largest period count of any trial, with
\* probability(h) = round(100 * (trials with period count <= h) / S); the
\* probabilities are non-decreasing, lie in 0..100, and the last one is 100
\* when M <= 24
C20_Distribution ==
  FullForecastReturned =>
    LET dist == output.distribution
        horizons == IF LargestPeriods < 24 THEN LargestPeriods ELSE 24
    IN /\ Len(dist) = horizons
       /\ \A h \in 1..horizons :
            /\ dist[h].periods = h
            /\ dist[h].probability = NearestInteger(100 * TrialsWithin(h), input.simulations)
            /\ dist[h].probability \in 0..100
            /\ (h > 1) => (dist[h - 1].probability <= dist[h].probability)
       /\ (LargestPeriods <= 24) => (dist[horizons].probability = 100)

\* two trials that took 2 and 3 periods: probabilities 0, 50 and 100
C20_Witness ==
  /\ FullForecastReturned
  /\ input.simulations = 2
  /\ frame.completionDays = <<2, 3>>
  /\ Len(output.distribution) = 3
  /\ output.distribution[1].probability = 0
  /\ output.distribution[2].probability = 50
  /\ output.distribution[3].probability = 100

(***************************************************************************)
(* The statistics of monteCarloForecast, taken from trial outcomes that    *)
(* were collected in any order.                                            *)
(***************************************************************************)
MaxTrials == 3

\* the period counts a trial can record: short ones, one beyond the 24
\* horizons of the distribution and the cap
TrialOutcomes == {1, 2, 3, 25, 100}

\* the percentiles and the distribution of lines 37-68
ForecastStatistics(completionDays) ==
  LET sorted == SortCompletionDays(completionDays)
  IN [p50 |-> percentileForecast(sorted, 50).value,
      p85 |-> percentileForecast(sorted, 85).value,
      p95 |-> percentileForecast(sorted, 95).value,
      distribution |-> Distribution(sorted, Len(sorted))]

\* the trials have been run and their outcomes collected in some order
CollectTrials ==
  /\ call = "none"
  /\ UNCHANGED frame
  /\ \E n \in 1..MaxTrials :
     \E completionDays \in [1..n -> TrialOutcomes] :
       /\ call' = "forecastStatistics"
       /\ input' = [completionDays |-> completionDays]
       /\ output' = ForecastStatistics(completionDays)

NextStatistics == CollectTrials

SpecStatistics == Init /\ [][NextStatistics]_vars

StatisticsCalled == call = "forecastStatistics"

\* the orders in which the collected outcomes could have arrived
Arrangements(days) ==
  {[i \in 1..Len(days) |-> days[q[i]]] :
     q \in {f \in [1..Len(days) -> 1..Len(days)] :
              \A i, j \in 1..Len(days) : f[i] = f[j] => i = j}}

\* the number of collected outcomes that are at most v
OutcomesWithin(v) ==
  Cardinality({i \in 1..Len(input.completionDays) : input.completionDays[i] <= v})

\* the p-th percentile of the multiset of outcomes: the least outcome that
\* at least p percent of the trials do not exceed
MultisetPercentile(p) ==
  CHOOSE v \in Range(input.completionDays) :
    /\ 100 * OutcomesWithin(v) >= p * Len(input.completionDays)
    /\ \A w \in Range(input.completionDays) :
         (100 * OutcomesWithin(w) >= p * Len(input.completionDays)) => v <= w

\* C21: percentiles and distribution depend only on the multiset of the
\* per-trial period counts: the same outcomes collected in any order give
\* the same p50, p85, p95 and the same distribution
C21_OrderIndependent ==
  StatisticsCalled =>
    /\ \A days \in Arrangements(input.completionDays) :
         ForecastStatistics(days) = output
    /\ output.p50 = MultisetPercentile(50)
    /\ output.p85 = MultisetPercentile(85)
    /\ output.p95 = MultisetPercentile(95)
    /\ \A h \in 1..Len(output.distribution) :
         output.distribution[h].probability =
           NearestInteger(100 * OutcomesWithin(h), Len(input.completionDays))

\* outcomes collected out of order, the longest trial first
C21_Witness ==
  /\ StatisticsCalled
  /\ input.completionDays = <<3, 1, 2>>
  /\ output.p50 = 2
  /\ output.p95 = 3
  /\ Len(output.distribution) = 3

(***************************************************************************)
(* calculateThroughput(epics, periodType)                                  *)
(* A resolution date counts the days since Friday 2023-12-01; the server   *)
(* clock is UTC, so local and ISO calendar dates are the same.  A period   *)
(* key is a sequence of characters.                                        *)
(***************************************************************************)
MaxCompleted == 3

IsLeapYear(y) == (y % 4 = 0 /\ y % 100 # 0) \/ y % 400 = 0

DaysInMonth(y, m) ==
  IF m = 2 THEN (IF IsLeapYear(y) THEN 29 ELSE 28)
  ELSE IF m \in {4, 6, 9, 11} THEN 30
  ELSE 31

\* getFullYear(), getMonth() + 1 and getDate() of the day n days after the
\* first of month m of year y
RECURSIVE CivilFrom(_, _, _)
CivilFrom(y, m, n) ==
  IF n < DaysInMonth(y, m) THEN [year |-> y, month |-> m, day |-> n + 1]
  ELSE IF m = 12 THEN CivilFrom(y + 1, 1, n - DaysInMonth(y, m))
  ELSE CivilFrom(y, m + 1, n - DaysInMonth(y, m))

Civil(n) == CivilFrom(2023, 12, n)

\* getDay(): 0 is Sunday, and day 0 is a Friday
GetDay(n) == (n + 5) % 7

DigitChar(d) ==
  CASE d = 0 -> "0" [] d = 1 -> "1" [] d = 2 -> "2" [] d = 3 -> "3" [] d = 4 -> "4"
    [] d = 5 -> "5" [] d = 6 -> "6" [] d = 7 -> "7" [] d = 8 -> "8" [] d = 9 -> "9"

\* String(n): the decimal digits of n >= 0
RECURSIVE DigitsOf(_)
DigitsOf(n) == IF n < 10 THEN <<DigitChar(n)>> ELSE DigitsOf(n \div 10) \o <<DigitChar(n % 10)>>

\* String(n).padStart(2, '0')
PadStart2(n) == IF n < 10 THEN <<"0">> \o DigitsOf(n) ELSE DigitsOf(n)

NaNText == <<"N", "a", "N">>

\* the key of the period a resolution date falls in; a week key of an
\* Invalid Date does not exist, toISOString() throws a RangeError
PeriodKey(resolutionDate, periodType) ==
  LET date == NewDate(resolutionDate)
  IN IF periodType = "month"
       THEN IF date.nan THEN Some(NaNText \o <<"-">> \o NaNText)
            ELSE Some(DigitsOf(Civil(date.ms).year) \o <<"-">> \o PadStart2(Civil(date.ms).month))
     ELSE IF periodType = "quarter"
       THEN IF date.nan THEN Some(NaNText \o <<" ", "Q">> \o NaNText)
            ELSE Some(DigitsOf(Civil(date.ms).year) \o <<" ", "Q">>
                        \o DigitsOf(MathCeil(Civil(date.ms).month, 3)))
     ELSE IF date.nan THEN Undefined
          ELSE LET startOfWeek == Civil(date.ms - GetDay(date.ms))
               IN Some(DigitsOf(startOfWeek.year) \o <<"-">> \o PadStart2(startOfWeek.month)
                         \o <<"-">> \o PadStart2(startOfWeek.day))

\* the collation rank of the characters of a period key: punctuation,
\* then digits, then letters
CharRank(c) ==
  CASE c = " " -> 0 [] c = "-" -> 1
    [] c = "0" -> 10 [] c = "1" -> 11 [] c = "2" -> 12 [] c = "3" -> 13 [] c = "4" -> 14
    [] c = "5" -> 15 [] c = "6" -> 16 [] c = "7" -> 17 [] c = "8" -> 18 [] c = "9" -> 19
    [] c = "a" -> 30 [] c = "N" -> 31 [] c = "Q" -> 32

\* a.localeCompare(b) < 0
RECURSIVE LocaleLess(_, _)
LocaleLess(a, b) ==
  IF b = <<>> THEN FALSE
  ELSE IF a = <<>> THEN TRUE
  ELSE IF CharRank(Head(a)) # CharRank(Head(b)) THEN CharRank(Head(a)) < CharRank(Head(b))
  ELSE LocaleLess(Tail(a), Tail(b))

\* every epic with a resolution date counts, whatever its status
IsCompleted_AnyStatus(e) == e.resolutionDate.kind # "absent"

\* e.statusCategory === 'done' && e.resolutionDate
IsCompleted(e) == e.statusCategory = "done" /\ e.resolutionDate.kind # "absent"

RECURSIVE FilterCompleted(_)
FilterCompleted(epics) ==
  IF epics = <<>> THEN <<>>
  ELSE IF IsCompleted(Head(epics)) THEN <<Head(epics)>> \o FilterCompleted(Tail(epics))
  ELSE FilterCompleted(Tail(epics))

\* periodMap.set(periodKey, (periodMap.get(periodKey) || 0) + 1), the map
\* being the sequence of its entries in insertion order
MapIncrement(periodMap, periodKey) ==
  IF \E i \in 1..Len(periodMap) : periodMap[i].period = periodKey
    THEN [i \in 1..Len(periodMap) |->
            IF periodMap[i].period = periodKey
              THEN [period |-> periodKey, count |-> periodMap[i].count + 1]
            ELSE periodMap[i]]
  ELSE Append(periodMap, [period |-> periodKey, count |-> 1])

\* the loop over the completed epics; Undefined once a key threw
RECURSIVE CountPeriods(_, _, _)
CountPeriods(completed, periodType, periodMap) ==
  IF completed = <<>> THEN Some(periodMap)
  ELSE LET periodKey == PeriodKey(Head(completed).resolutionDate, periodType)
       IN IF periodKey.defined
            THEN CountPeriods(Tail(completed), periodType,
                              MapIncrement(periodMap, periodKey.value))
          ELSE Undefined

RECURSIVE InsertByPeriod(_, _)
InsertByPeriod(sorted, entry) ==
  IF sorted = <<>> THEN <<entry>>
  ELSE IF LocaleLess(entry.period, Head(sorted).period) THEN <<entry>> \o sorted
  ELSE <<Head(sorted)>> \o InsertByPeriod(Tail(sorted), entry)

\* .sort(([a], [b]) => a.localeCompare(b))
RECURSIVE SortByPeriod(_)
SortByPeriod(entries) ==
  IF entries = <<>> THEN <<>>
  ELSE InsertByPeriod(SortByPeriod(Tail(entries)), Head(entries))

\* the sorted points, or Undefined when the call threw
calculateThroughput(epics, periodType) ==
  LET periodMap == CountPeriods(FilterCompleted(epics), periodType, <<>>)
  IN IF periodMap.defined THEN Some(SortByPeriod(periodMap.value)) ELSE Undefined

\* 2023-12-30 (a Saturday), 2023-12-31, 2024-01-01, 2024-01-07 (a Sunday),
\* 2024-03-31 and 2024-04-01
ResolutionDays == {29, 30, 31, 37, 121, 122}

ThroughputEpics ==
  [statusCategory : {"done"},
   resolutionDate : {AbsentDate, InvalidDate} \cup [kind : {"date"}, ms : ResolutionDays]]
  \cup [statusCategory : {"indeterminate"},
        resolutionDate : {AbsentDate, [kind |-> "date", ms |-> 31]}]

PeriodTypes == {"month", "quarter", "week"}

CalculateThroughput ==
  /\ call = "none"
  /\ UNCHANGED frame
  /\ \E periodType \in PeriodTypes, n \in 0..MaxCompleted :
     \E epics \in [1..n -> ThroughputEpics] :
       /\ call' = "calculateThroughput"
       /\ input' = [epics |-> epics, periodType |-> periodType]
       /\ output' = calculateThroughput(epics, periodType)

NextThroughput == CalculateThroughput

SpecThroughput == Init /\ [][NextThroughput]_vars

ThroughputCalled == call = "calculateThroughput"

\* the epics that are done and have a resolution date
CountedEpicsOfThroughput ==
  {i \in 1..Len(input.epics) :
     /\ input.epics[i].statusCategory = "done"
     /\ input.epics[i].resolutionDate.kind # "absent"}

\* the calendar period of a day: the month, the quarter or the week that
\* begins on a Sunday
PeriodOfDay(n) ==
  IF input.periodType = "month" THEN <<Civil(n).year, Civil(n).month>>
  ELSE IF input.periodType = "quarter" THEN <<Civil(n).year, (Civil(n).month + 2) \div 3>>
  ELSE <<(n + 5) \div 7>>

\* the period of a counted epic; the unparseable dates share one
PeriodOfEpic(i) ==
  LET d == input.epics[i].resolutionDate
  IN IF d.kind = "date" THEN PeriodOfDay(d.ms) ELSE <<>>

\* the position of the point that carries the key of epic i, 0 if none
PointOfEpic(i) ==
  LET key == PeriodKey(input.epics[i].resolutionDate, input.periodType).value
      at == {k \in 1..Len(output.value) : output.value[k].period = key}
  IN IF Cardinality(at) = 1 THEN CHOOSE k \in at : TRUE ELSE 0

RECURSIVE SumOfCounts(_)
SumOfCounts(points) ==
  IF points = <<>> THEN 0 ELSE Head(points).count + SumOfCounts(Tail(points))

MaxFlowEpics == 2
MaxFlowWeeks == 3

\* setHours(23, 59, 59, 999): the last instant of the day of t, which the
\* half-day timestamps meet at its noon
EndOfDay(t) == (t \div Day) * Day + (Day - 1)

\* the snapshots told from today onwards
WeekEnd_Forward(now, i) == EndOfDay(now + i * 7 * Day)

\* weekEnd.setDate(weekEnd.getDate() - i * 7); weekEnd.setHours(23, 59, 59, 999)
WeekEnd(now, i) == EndOfDay(now - i * 7 * Day)

\* weekEnd.toISOString().split('T')[0]: the calendar day, as a day number
WeekLabel(weekEnd) == weekEnd \div Day

\* a <= b on Dates: any comparison with NaN is false
LessOrEqual(a, b) == ~a.nan /\ ~b.nan /\ a.ms <= b.ms

\* the column an epic is counted in at weekEnd: "none" if it did not exist
FlowColumn(epic, weekEnd) ==
  IF epic.created.kind = "absent" \/ Greater(NewDate(epic.created), Num(weekEnd))
    THEN "none"
  ELSE LET hasResolution == epic.resolutionDate.kind # "absent"
           resolutionDate == NewDate(epic.resolutionDate)
       IN IF hasResolution /\ LessOrEqual(resolutionDate, Num(weekEnd)) THEN "done"
          ELSE IF epic.statusCategory = "indeterminate" THEN "inProgress"
          ELSE IF /\ epic.statusCategory = "done"
                  /\ (~hasResolution \/ Greater(resolutionDate, Num(weekEnd)))
            THEN "inProgress"
          ELSE "todo"

CountColumn(epics, weekEnd, column) ==
  Cardinality({k \in 1..Len(epics) : FlowColumn(epics[k], weekEnd) = column})

Snapshot(epics, weekEnd) ==
  [week |-> WeekLabel(weekEnd),
   done |-> CountColumn(epics, weekEnd, "done"),
   inProgress |-> CountColumn(epics, weekEnd, "inProgress"),
   todo |-> CountColumn(epics, weekEnd, "todo")]

\* for (let i = weeks - 1; i >= 0; i--) snapshots.push(...)
buildCumulativeFlow(epics, weeks, now) ==
  [n \in 1..weeks |-> Snapshot(epics, WeekEnd(now, weeks - n))]

FlowDate(t) == [kind |-> "date", ms |-> t]

\* today is day 14; stamps on both sides of the ends of day 0, 7 and 14
FlowEpics ==
  [statusCategory : {"new"}, created : {FlowDate(1), FlowDate(30)},
   resolutionDate : {AbsentDate}]
  \cup [statusCategory : {"indeterminate"},
        created : {AbsentDate, FlowDate(1), FlowDate(16)},
        resolutionDate : {AbsentDate}]
  \cup [statusCategory : {"indeterminate"}, created : {FlowDate(1)},
        resolutionDate : {FlowDate(15)}]
  \cup [statusCategory : {"done"}, created : {FlowDate(1)},
        resolutionDate : {AbsentDate, InvalidDate, FlowDate(2), FlowDate(15), FlowDate(16)}]
  \cup [statusCategory : {"done"}, created : {FlowDate(16)},
        resolutionDate : {FlowDate(16), FlowDate(30)}]
  \cup [statusCategory : {"done"}, created : {InvalidDate},
        resolutionDate : {FlowDate(15)}]

\* midnight and noon of day 14
FlowNows == {14 * Day, 14 * Day + 1}

BuildCumulativeFlow ==
  /\ call = "none"
  /\ UNCHANGED frame
  /\ \E weeks \in 0..MaxFlowWeeks, now \in FlowNows, n \in 0..MaxFlowEpics :
     \E epics \in [1..n -> FlowEpics] :
       /\ call' = "buildCumulativeFlow"
       /\ input' = [epics |-> epics, weeks |-> weeks, now |-> now]
       /\ output' = buildCumulativeFlow(epics, weeks, now)

NextFlow == BuildCumulativeFlow

SpecFlow == Init /\ [][NextFlow]_vars

FlowCalled == call = "buildCumulativeFlow"

\* the boundary of a snapshot: the end of the day it is labelled with
BoundaryOf(snapshot) == snapshot.week * Day + (Day - 1)

CreatedBy(epic, boundary) == epic.created.kind = "date" /\ epic.created.ms <= boundary
CreatedAfter(epic, boundary) == epic.created.kind = "date" /\ epic.created.ms > boundary
ResolvedBy(epic, boundary) ==
  epic.resolutionDate.kind = "date" /\ epic.resolutionDate.ms <= boundary
ResolvedAfter(epic, boundary) ==
  epic.resolutionDate.kind = "date" /\ epic.resolutionDate.ms > boundary

\* the column the rule of the flow diagram gives an epic at a boundary
ExpectedColumn(epic, boundary) ==
  IF ResolvedBy(epic, boundary) THEN "done"
  ELSE IF epic.statusCategory = "indeterminate" THEN "inProgress"
  ELSE IF epic.statusCategory = "done" /\ ResolvedAfter(epic, boundary) THEN "inProgress"
  ELSE "todo"

\* the epics created by the boundary that the rule puts in a column
ExpectedCount(boundary, column) ==
  Cardinality({k \in 1..Len(input.epics) :
                 /\ CreatedBy(input.epics[k], boundary)
                 /\ ExpectedColumn(input.epics[k], boundary) = column})

\* created and resolved dates that can be parsed, or are absent
HasParseableDates(epic) ==
  epic.created.kind # "invalid" /\ epic.resolutionDate.kind # "invalid"

\* C23: in every snapshot each epic created at or before the boundary is
\* counted exactly once: done if resolved at or before the boundary,
\* otherwise in-progress if its status is indeterminate or if it is done and
\* resolved after the boundary, otherwise todo; epics created after the
\* boundary are counted nowhere
C23_SnapshotCounts ==
  (FlowCalled /\ \A k \in 1..Len(input.epics) : HasParseableDates(input.epics[k])) =>
    \A n \in 1..Len(output) :
      LET boundary == BoundaryOf(output[n])
      IN /\ output[n].done = ExpectedCount(boundary, "done")
         /\ output[n].inProgress = ExpectedCount(boundary, "inProgress")
         /\ output[n].todo = ExpectedCount(boundary, "todo")

\* C28: the snapshots are in chronological order, a week apart, the last
\* one is today's, and from each snapshot to the next the done count never
\* decreases
C28_ChronologicalFlow ==
  FlowCalled =>
    /\ Len(output) = input.weeks
    /\ \A n \in 1..(Len(output) - 1) :
         /\ output[n].week + 7 = output[n + 1].week
         /\ output[n].done <= output[n + 1].done
    /\ (Len(output) > 0) => (output[Len(output)].week = input.now \div Day)

\* three snapshots of two epics, one resolved in the second week and one
\* in the third: done counts 0, 1 and 2
C28_Witness ==
  /\ FlowCalled
  /\ input.weeks = 3
  /\ Len(input.epics) = 2
  /\ input.epics[1].resolutionDate = FlowDate(15)
  /\ input.epics[2].resolutionDate = FlowDate(16)
  /\ input.epics[2].created = FlowDate(1)
  /\ output[1].week = 0 /\ output[2].week = 7 /\ output[3].week = 14
  /\ output[1].done = 0 /\ output[2].done = 1 /\ output[3].done = 2

(***************************************************************************)
(* buildPrioritizationData(epics, fieldMappings)                           *)
(* Efforts and values count tenths, like the WSJF components.              *)
(***************************************************************************)
MaxPortfolio == 3

\* e.statusCategory !== 'done'
IsActive(epic) == epic.statusCategory # "done"

\* the entry .map() builds for an active epic; summary, status and assignee
\* are copied through like key and priority
PrioritizedEpic(epic, fieldMappings, now) ==
  LET wsjf == calculateWSJF(epic, fieldMappings, now)
      moscow == categorizeMoSCoW(epic, fieldMappings, now)
      spEffort == IF epic.children.totalPoints # 0 THEN epic.children.totalPoints
                  ELSE epic.storyPoints
      childCount == epic.children.total
  IN [key |-> epic.key,
      statusCategory |-> epic.statusCategory,
      priority |-> epic.priority,
      health |-> epic.health,
      progress |-> epic.progress,
      labels |-> epic.labels,
      effort |-> IF spEffort > 0 THEN spEffort ELSE childCount * 2 * 10,
      effortSource |-> IF spEffort > 0 THEN "story_points" ELSE "child_count",
      value |-> wsjf.businessValue,
      wsjf |-> wsjf,
      moscow |-> moscow]

RECURSIVE MapActive(_, _, _)
MapActive(epics, fieldMappings, now) ==
  IF epics = <<>> THEN <<>>
  ELSE IF IsActive(Head(epics))
    THEN <<PrioritizedEpic(Head(epics), fieldMappings, now)>>
           \o MapActive(Tail(epics), fieldMappings, now)
  ELSE MapActive(Tail(epics), fieldMappings, now)

\* the entry placed for an ascending order of scores
RECURSIVE InsertByScore_Ascending(_, _)
InsertByScore_Ascending(sorted, entry) ==
  IF sorted = <<>> THEN <<entry>>
  ELSE IF Head(sorted).wsjf.wsjfScore <= entry.wsjf.wsjfScore
    THEN <<Head(sorted)>> \o InsertByScore_Ascending(Tail(sorted), entry)
  ELSE <<entry>> \o sorted

\* the entry placed behind every entry whose score is not lower
RECURSIVE InsertByScore(_, _)
InsertByScore(sorted, entry) ==
  IF sorted = <<>> THEN <<entry>>
  ELSE IF Head(sorted).wsjf.wsjfScore >= entry.wsjf.wsjfScore
    THEN <<Head(sorted)>> \o InsertByScore(Tail(sorted), entry)
  ELSE <<entry>> \o sorted

\* prioritizedEpics.sort((a, b) => b.wsjf.wsjfScore - a.wsjf.wsjfScore), a stable sort
RECURSIVE SortByScore(_)
SortByScore(entries) ==
  IF entries = <<>> THEN <<>>
  ELSE InsertByScore(SortByScore(SubSeq(entries, 1, Len(entries) - 1)),
                     entries[Len(entries)])

CountMoscow(entries, category) ==
  Cardinality({k \in 1..Len(entries) : entries[k].moscow = category})

\* the positive numbers of a list, in ascending order
RECURSIVE PositiveSorted(_)
PositiveSorted(numbers) ==
  IF numbers = <<>> THEN <<>>
  ELSE IF Head(numbers) > 0 THEN InsertAscending(Head(numbers), PositiveSorted(Tail(numbers)))
  ELSE PositiveSorted(Tail(numbers))

\* values.sort((a, b) => a - b)[Math.floor(values.length / 2)], else the default
MedianOr(numbers, default) ==
  LET values == PositiveSorted(numbers)
  IN IF Len(values) > 0 THEN values[MathFloor(Len(values), 2) + 1] ELSE default

buildPrioritizationData(epics, fieldMappings, now) ==
  LET prioritizedEpics == SortByScore(MapActive(epics, fieldMappings, now))
      medianEffort == MedianOr([k \in 1..Len(prioritizedEpics) |-> prioritizedEpics[k].effort], 50)
      medianValue == MedianOr([k \in 1..Len(prioritizedEpics) |-> prioritizedEpics[k].value], 30)
      Quadrant(highValue, highEffort) ==
        Cardinality({k \in 1..Len(prioritizedEpics) :
                       /\ (prioritizedEpics[k].value >= medianValue) = highValue
                       /\ (prioritizedEpics[k].effort >= medianEffort) = highEffort})
  IN [epics |-> prioritizedEpics,
      moscowDistribution |->
        [c \in {"Must Have", "Should Have", "Could Have", "Won't Have"} |->
           CountMoscow(prioritizedEpics, c)],
      quadrants |-> [quickWins |-> Quadrant(TRUE, FALSE), bigBets |-> Quadrant(TRUE, TRUE),
                     fillIns |-> Quadrant(FALSE, FALSE), moneyPit |-> Quadrant(FALSE, TRUE)],
      medianEffort |-> medianEffort,
      medianValue |-> medianValue]

\* the signals of the epics of a portfolio: status, priority, child total
\* points, own story points and child count
PortfolioSignals ==
  {<<"done", "Highest", 30, 0, 3>>}
  \cup {<<"indeterminate", "Medium", tp, sp, n>> : tp \in {0, 30}, sp \in {0, 80}, n \in {0, 3}}
  \cup {<<"new", pr, 30, 0, 3>> : pr \in {"Highest", "Low"}}

PortfolioEpic(i, signals) ==
  [key |-> "E-" \o ToString(i), statusCategory |-> signals[1]]
  @@ PriorityEpic(signals[2], "on-track", signals[5], signals[3], signals[4], 0,
                  AbsentDate, Undefined, Undefined)

BuildPrioritizationData ==
  /\ call = "none"
  /\ UNCHANGED frame
  /\ \E fieldMappings \in {Undefined, Some(FullMapping)}, n \in 0..MaxPortfolio :
     \E signals \in [1..n -> PortfolioSignals] :
       LET epics == [i \in 1..n |-> PortfolioEpic(i, signals[i])]
       IN /\ call' = "buildPrioritizationData"
          /\ input' = [epics |-> epics, fieldMappings |-> fieldMappings, now |-> 0]
          /\ output' = buildPrioritizationData(epics, fieldMappings, 0)

NextPortfolio == BuildPrioritizationData

SpecPortfolio == Init /\ [][NextPortfolio]_vars

PortfolioCalled == call = "buildPrioritizationData"

\* the input epics whose status category is not done
ActiveInputs == {i \in 1..Len(input.epics) : input.epics[i].statusCategory # "done"}

\* C24: the returned epics are exactly the input epics whose status
\* category is not done, each once, and wsjfScore never increases from one
\* entry to the next
C24_ActiveByScore ==
  PortfolioCalled =>
    /\ Len(output.epics) = Cardinality(ActiveInputs)
    /\ \A i \in ActiveInputs :
         Cardinality({k \in 1..Len(output.epics) :
                        output.epics[k].key = input.epics[i].key}) = 1
    /\ \A k \in 1..(Len(output.epics) - 1) :
         output.epics[k].wsjf.wsjfScore >= output.epics[k + 1].wsjf.wsjfScore

\* a done epic, then a Low and a Highest epic: the Highest one comes first
C24_Witness ==
  /\ PortfolioCalled
  /\ ~input.fieldMappings.defined
  /\ Len(input.epics) = 3
  /\ input.epics[1].statusCategory = "done"
  /\ input.epics[2].priority = "Low"
  /\ input.epics[3].priority = "Highest"
  /\ Len(output.epics) = 2
  /\ output.epics[1].key = "E-3"
  /\ output.epics[2].key = "E-2"
  /\ output.epics[1].wsjf.wsjfScore > output.epics[2].wsjf.wsjfScore

\* C25: effort is the child total story points when that total is greater
\* than 0 (tag 'story_points') and otherwise child count * 2 (tag
\* 'child_count'); no other field of the epic influences it
C25_EffortFromChildren ==
  PortfolioCalled =>
    \A k \in 1..Len(output.epics) :
      \A i \in 1..Len(input.epics) :
        (input.epics[i].key = output.epics[k].key) =>
          LET children == input.epics[i].children
          IN IF children.totalPoints > 0
               THEN /\ output.epics[k].effort = children.totalPoints
                    /\ output.epics[k].effortSource = "story_points"
             ELSE /\ output.epics[k].effort = children.total * 2 * 10
                  /\ output.epics[k].effortSource = "child_count"

\* ---------------------------------------------------------------------
\* calculateEpicHealth: unparseable due dates, and fully progressed epics
\* ---------------------------------------------------------------------

DueIsUnparseable == input.epic.duedate.kind = "invalid"

\* the call's epic with its due date removed
EpicWithoutDueDate == [input.epic EXCEPT !.duedate = AbsentDate]

\* C26: an epic whose due date is present but unparseable gets the verdict
\* the same epic gets with no due date at all; in particular a not-done,
\* unblocked epic with children is on-track at any progress.
C26_UnparseableDueAsAbsent ==
  HealthCalled /\ DueIsUnparseable =>
    /\ output.health =
         calculateEpicHealth(EpicWithoutDueDate, input.children,
                             input.dependencies, input.now).health
    /\ (~EpicIsDone /\ ~HasUnresolvedBlocker /\ ~HasNoChildren)
         => (output.health = "on-track")

\* C27: a not-done, unblocked epic whose children are all done (progress
\* 100) never gets verdict at-risk, whatever its creation and due dates,
\* a due date far in the past included.
C27_FullProgressNeverAtRisk ==
  HealthCalled /\ ~EpicIsDone /\ ~HasUnresolvedBlocker
    /\ ~HasNoChildren /\ GivenProgress = 100
    => output.health # "at-risk"

\* ---------------------------------------------------------------------
\* calculateEpicLeadCycleTime: the resolved count of the report
\* ---------------------------------------------------------------------

\* C29: totalResolved of the lead time report equals the number of entries
\* of its epics detail list, which is the number of lead times behind the
\* average, the percentiles and the histogram; an epic resolved before its
\* creation is not counted.
C29_TotalResolvedIsDetailCount ==
  LeadTimeCalled =>
    /\ output.totalResolved = Len(output.epics)
    /\ output.totalResolved = Cardinality(CountedEpics)
    /\ output.totalResolved = SumCounts(output.histogram)

(***************************************************************************)
(* ProductManagement: the React component that loads the epic data.  Under *)
(* SpecComponent, input holds the props, output the component's state as   *)
(* rendered, and frame the locals of the asynchronous handlers that are    *)
(* running: the values their closures captured at the render that created  *)
(* them, and the await they are suspended at.                              *)
(***************************************************************************)
MaxBoards == 2

NULL == "<null>"

CesText == <<"c", "e", "s">>
CesScrumName == <<"C", "E", "S", " ", "S", "c", "r", "u", "m">>
OpsName == <<"O", "p", "s">>

\* a board of the selectedBoards prop: an object {id, name} or a bare id
BoardObject(id, name) == [object |-> TRUE, id |-> id, name |-> name]
BareBoard(id) == [object |-> FALSE, id |-> id, name |-> <<>>]

\* typeof b === 'object' ? b.id : b
BoardId(b) == b.id

\* typeof b === 'object' ? b.name : `Board ${b}`
BoardName(b) ==
  IF b.object THEN b.name ELSE <<"B", "o", "a", "r", "d", " ">> \o DigitsOf(b.id)

allBoardIds(selectedBoards) ==
  [i \in 1..Len(selectedBoards) |-> BoardId(selectedBoards[i])]

boardList(selectedBoards) ==
  [i \in 1..Len(selectedBoards) |->
     [id |-> BoardId(selectedBoards[i]), name |-> BoardName(selectedBoards[i])]]

\* the initial selection: the first board whose name contains 'ces', else
\* the first board, else nothing
InitialSelectedBoardIds(selectedBoards) ==
  LET list == boardList(selectedBoards)
      ces == {i \in 1..Len(list) : Includes(toLowerCase(list[i].name), CesText)}
  IN IF ces # {}
       THEN <<list[CHOOSE i \in ces : \A j \in ces : i <= j].id>>
     ELSE IF Len(selectedBoards) > 0 THEN <<allBoardIds(selectedBoards)[1]>>
     ELSE <<>>

\* the useState initial values
InitialState(selectedBoards) ==
  [fullData |-> Undefined,
   loading |-> FALSE,
   error |-> "",
   dataSource |-> NULL,
   dataAge |-> Undefined,
   fetchedBoardIds |-> <<>>,
   selectedBoardIds |-> InitialSelectedBoardIds(selectedBoards)]

\* the selected boards the fetched data does not cover
uncoveredBoards(state) ==
  IF ~state.fullData.defined \/ ~state.fullData.value.boardProjectMap
    THEN state.selectedBoardIds
  ELSE LET coveredBoardIds == {DigitsOf(id) : id \in Range(state.fetchedBoardIds)}
           NotCovered(id) == DigitsOf(id) \notin coveredBoardIds
       IN SelectSeq(state.selectedBoardIds, NotCovered)

needsRefresh(state) == Len(uncoveredBoards(state)) > 0 /\ state.fullData.defined

\* the answer of a request: it throws, or it is {success, data, age}
Throws == [throws |-> TRUE, success |-> FALSE, data |-> Undefined, age |-> Undefined]
Answer(success, data, age) ==
  [throws |-> FALSE, success |-> success, data |-> data, age |-> age]

\* result.success && result.data
HasData(result) == result.success /\ result.data.defined

\* catch { setDataSource(null) } finally { setLoading(false) }
LoadFailed(state) == [state EXCEPT !.dataSource = NULL, !.loading = FALSE]

\* loadFromDatabase after its last await: load holds the closure's boardIds
\* and the fetchedBoardIds of the render that created the closure
LoadConcluded(state, load, result) ==
  IF HasData(result)
    THEN [state EXCEPT
            !.fullData = result.data,
            !.fetchedBoardIds =
               IF Len(load.fetchedBoardIds) = 0 THEN load.boardIds ELSE @,
            !.dataSource = "database",
            !.dataAge = Some(IF result.age.defined /\ result.age.value # 0
                               THEN result.age.value ELSE 0),
            !.loading = FALSE]
  ELSE [state EXCEPT !.dataSource = NULL, !.loading = FALSE]

\* the fallback request succeeded: setFetchedBoardIds(allBoardIds)
FallbackLoaded(state, load, result) ==
  IF HasData(result) THEN [state EXCEPT !.fetchedBoardIds = load.allBoardIds]
  ELSE state

\* the updater of toggleBoard
toggleBoard(prev, boardId) ==
  LET Other(id) == id # boardId
  IN IF boardId \in Range(prev)
       THEN IF Len(prev) = 1 THEN prev ELSE SelectSeq(prev, Other)
     ELSE Append(prev, boardId)

\* loadFromJira after its await: selected holds the closure's selectedBoardIds
JiraConcluded(state, selected, result) ==
  IF result.throws
    THEN [state EXCEPT !.error = "Failed to load epic data", !.loading = FALSE]
  ELSE IF result.success
    THEN [state EXCEPT
            !.fullData = result.data,
            !.fetchedBoardIds = selected,
            !.dataSource = "jira",
            !.dataAge = Some(0),
            !.loading = FALSE]
  ELSE [state EXCEPT !.error = "Failed to load epic data", !.loading = FALSE]

\* the selectedBoards props: bare ids and named boards in turn, and at most
\* one board named after CES
BoardLists(n) ==
  {[i \in 1..n |-> IF i = c THEN BoardObject(i, CesScrumName)
                   ELSE IF i % 2 = 1 THEN BareBoard(i)
                   ELSE BoardObject(i, OpsName)] : c \in 0..n}

\* the data a request for boardIds returns, with or without a board to
\* project map
DataFor(boardIds) == [boards : {boardIds}, boardProjectMap : BOOLEAN]

CachedResults(boardIds) ==
  {Throws,
   Answer(FALSE, Undefined, Undefined),
   Answer(TRUE, Undefined, Undefined)}
  \cup {Answer(FALSE, Some(d), Undefined) : d \in DataFor(boardIds)}
  \cup {Answer(TRUE, Some(d), age) : d \in DataFor(boardIds), age \in {Undefined, Some(3)}}

JiraResults(boardIds) ==
  {Throws, Answer(FALSE, Undefined, Undefined)}
  \cup {Answer(TRUE, Some(d), Undefined) : d \in DataFor(boardIds)}

NoHandlers ==
  [pc |-> "idle", boardIds |-> <<>>, fetchedBoardIds |-> <<>>, allBoardIds |-> <<>>,
   result |-> Undefined, jira |-> "idle", jiraBoardIds |-> <<>>]

Mounted == call = "ProductManagement"

\* the first render and its effect: loadFromDatabase(selectedBoardIds) runs
\* to its first await
Mount ==
  /\ call = "none"
  /\ \E n \in 0..MaxBoards : \E selectedBoards \in BoardLists(n) :
       LET state == InitialState(selectedBoards)
       IN /\ call' = "ProductManagement"
          /\ input' = [selectedBoards |-> selectedBoards]
          /\ IF Len(state.selectedBoardIds) > 0
               THEN /\ output' = [state EXCEPT !.loading = TRUE, !.error = ""]
                    /\ frame' = [NoHandlers EXCEPT
                                   !.pc = "first",
                                   !.boardIds = state.selectedBoardIds,
                                   !.fetchedBoardIds = state.fetchedBoardIds,
                                   !.allBoardIds = allBoardIds(selectedBoards)]
             ELSE /\ output' = state
                  /\ frame' = NoHandlers

\* the request for the exact boardIds answers
FirstResponse ==
  /\ Mounted /\ frame.pc = "first"
  /\ UNCHANGED <<call, input>>
  /\ \E result \in CachedResults(frame.boardIds) :
       IF result.throws
         THEN /\ output' = LoadFailed(output)
              /\ frame' = [frame EXCEPT !.pc = "finished", !.result = Some(result)]
       ELSE IF ~HasData(result) /\ Len(frame.boardIds) < Len(frame.allBoardIds)
         THEN /\ output' = output
              /\ frame' = [frame EXCEPT !.pc = "fallback", !.result = Some(result)]
       ELSE /\ output' = LoadConcluded(output, frame, result)
            /\ frame' = [frame EXCEPT !.pc = "finished", !.result = Some(result)]

\* the request for the all-boards cache answers
FallbackResponse ==
  /\ Mounted /\ frame.pc = "fallback"
  /\ UNCHANGED <<call, input>>
  /\ \E result \in CachedResults(frame.allBoardIds) :
       /\ frame' = [frame EXCEPT !.pc = "finished", !.result = Some(result)]
       /\ output' = IF result.throws THEN LoadFailed(output)
                    ELSE LoadConcluded(FallbackLoaded(output, frame, result),
                                       frame, result)

\* a click on a board of the selector
ToggleBoard ==
  /\ Mounted
  /\ UNCHANGED <<call, input, frame>>
  /\ \E board \in Range(boardList(input.selectedBoards)) :
       output' = [output EXCEPT !.selectedBoardIds = toggleBoard(@, board.id)]

\* a click on Select All, shown while some board is not selected
SelectAllBoards ==
  /\ Mounted
  /\ Len(output.selectedBoardIds) < Len(boardList(input.selectedBoards))
  /\ UNCHANGED <<call, input, frame>>
  /\ output' = [output EXCEPT !.selectedBoardIds = allBoardIds(input.selectedBoards)]

\* a click on Refresh from Jira (disabled while loading) or on Try again
\* (shown with an error): loadFromJira runs to its await
LoadFromJira ==
  /\ Mounted
  /\ ~output.loading \/ output.error # ""
  /\ frame.jira = "idle"
  /\ UNCHANGED <<call, input>>
  /\ output' = [output EXCEPT !.loading = TRUE, !.error = ""]
  /\ frame' = [frame EXCEPT !.jira = "waiting",
                            !.jiraBoardIds = output.selectedBoardIds]

\* the request to Jira answers
JiraResponse ==
  /\ Mounted /\ frame.jira = "waiting"
  /\ UNCHANGED <<call, input>>
  /\ \E result \in JiraResults(frame.jiraBoardIds) :
       /\ output' = JiraConcluded(output, frame.jiraBoardIds, result)
       /\ frame' = [frame EXCEPT !.jira = "idle"]

NextComponent ==
  \/ Mount
  \/ FirstResponse
  \/ FallbackResponse
  \/ ToggleBoard
  \/ SelectAllBoards
  \/ LoadFromJira
  \/ JiraResponse

SpecComponent == Init /\ [][NextComponent]_vars

\* the mount-time loadFromDatabase applies its last state updates after the
\* all-boards request returned data
FallbackSucceeds ==
  /\ Mounted /\ frame.pc = "fallback"
  /\ frame'.pc = "finished"
  /\ HasData(frame'.result.value)

FetchedIsAllBoards ==
  output'.fetchedBoardIds = allBoardIds(input.selectedBoards)

\* C30: when the mount-time loadFromDatabase finds no cache for the selected
\* boards and then loads the all-boards cache, the state reached when all of
\* its updates are applied has fetchedBoardIds equal to allBoardIds, the
\* boards the loaded data covers, not the selected boards.
C30_FallbackCoversAllBoards ==
  [][FallbackSucceeds => FetchedIsAllBoards]_vars

====
